---- MODULE Spec2Model ----
(***************************************************************************)
(* Model of the authentication core of homebridge-tekmar-wifi:             *)
(* WattsAuth (src/src/lib/api/client.ts, lines 206-672).                    *)
(*                                                                         *)
(* One WattsAuth object is shared by NumProcs cooperative callers.  Every  *)
(* `await` on a network call or on a file access is a suspension point: a  *)
(* caller's operation is cut into one action per stretch of code that runs *)
(* between two such suspensions.  Awaits on the logger change nothing that *)
(* is modelled and are folded into the neighbouring stretch.               *)
(***************************************************************************)
EXTENDS Naturals, Integers, Sequences, FiniteSets, TLC

\* ---------------------------------------------------------------- bounds
NumProcs == 2        \* concurrent callers of the one auth object
MaxOps   == 2        \* operations started in one behaviour
MaxPolls == 1                    \* timer ticks of the accessory handlers
MaxTicks == 1        \* clock ticks of TickMs each

\* ------------------------------------------------------ program constants
BufferSeconds == 300             \* isTokenExpired default bufferSeconds
CacheTimeout == 5000             \* TekmarThermostatAccessory.cacheTimeout
\* ----------------------------------------------------- environment values
T0 == 1000                       \* epoch second in which the behaviour starts
StartMs == T0 * 1000 + 500       \* Date.now() at the start, mid-second
TickMs == 500                    \* granularity of the millisecond clock
RefreshLifetime == 7776000       \* refresh_token_expires_in of the provider
\* expires_on of the provider's token responses: one second inside the
\* expiry buffer's edge at the start, on the edge after the second ends.
ExpiresOnChoices == {T0 + BufferSeconds + 1}

Procs == 1..NumProcs

VARIABLES
    tokens,        \* WattsAuth.tokens (in-memory StoredTokens or null)
    codeVerifier,  \* WattsAuth.codeVerifier (0 = null)
    file,          \* the durable record at WattsAuth.tokensFile
    clock,         \* Date.now(), milliseconds
    net,           \* requests sent to the provider and not yet answered
    pc,            \* per caller: position inside its operation
    op,            \* per caller: operation it is running or ran last
    loc,           \* per caller: local variables of the operation
    ret,           \* per caller: outcome of its last finished operation
    sent,          \* per caller: provider requests of the current operation
    touched,       \* per caller: token-state writes of the current operation
    opsStarted,    \* operations started so far
    replaced,      \* refresh tokens that a refresh response has replaced
    api,           \* per caller: its WattsApiClient.request() call
    apiRet,        \* per caller: outcome of its last request() call
    http,          \* resource-API requests sent and not yet answered
    cachedDevice,  \* TekmarThermostatAccessory.cachedDevice (0 = null)
    cacheTimestamp,\* TekmarThermostatAccessory.cacheTimestamp, milliseconds
    acc,           \* per caller: its call of an accessory method
    accRet,        \* per caller: outcome of its last accessory call
    gets,          \* the getCachedDevice() calls that returned a device
    writes,        \* updateCache() calls of set handlers so far
    lastWrite,     \* the last of them: its device, its time, and whether a
                   \* getCachedDevice() call was made since
    cachedReceived,\* the time at which cachedDevice was received from the API
    config,        \* PlatformConfig.pollingInterval
    pollingInterval,\* TekmarHomebridgePlatform.pollingInterval, seconds
    pollInterval,  \* TekmarThermostatAccessory.pollInterval: the polling timer
    server,        \* the device as the resource API holds it
    snapshot,      \* per request: the device data of the response body
    patches,       \* per request: the Settings a PATCH carries
    platform       \* TekmarHomebridgePlatform: its accessories, their
                   \* handlers, and the position of discoverDevices()

\* The state of the layers above WattsAuth.
apiVars == <<api, apiRet, http>>
platformVars == <<config, pollingInterval, pollInterval, platform>>
deviceVars == <<server, snapshot, patches>>
accVars == <<cachedDevice, cacheTimestamp, acc, accRet, gets, writes,
            lastWrite, cachedReceived, platformVars, deviceVars>>
upper == <<apiVars, accVars>>

vars == <<tokens, codeVerifier, file, clock, net,
          pc, op, loc, ret, sent, touched, opsStarted, replaced, upper>>

\* ------------------------------------------------------------------ data
\* StoredTokens; token strings are ids 1.., 0 stands for null / undefined.
NullTokens == [access_token |-> 0, refresh_token |-> 0,
               expires_at |-> 0, refresh_token_expires_at |-> 0]

StoredTokens(a, r, e, re) == [access_token |-> a, refresh_token |-> r,
                              expires_at |-> e, refresh_token_expires_at |-> re]

\* The record a previous run of the program may have left on disk.
\* Its access token is on the edge of the expiry buffer at the start.
PriorRecord == StoredTokens(1, 1, T0 + BufferSeconds, T0 + RefreshLifetime)

\* The durable file: absent, holding a complete record, or truncated by a
\* write that has opened it and not yet written its data.
FileAbsent    == [state |-> "absent",    data |-> NullTokens]
FileTruncated == [state |-> "truncated", data |-> NullTokens]
FileWith(t)   == [state |-> "ok",        data |-> t]

\* TokenResponse fields the code reads; refresh_token 0 = omitted.
NoTokenResponse == [access_token |-> 0, refresh_token |-> 0,
                    expires_on |-> 0, refresh_token_expires_in |-> 0]

\* SelfAsserted response body: status is a JSON string or a JSON number.
NoSubmitBody == [httpStatus |-> 0, statusType |-> "none", status |-> 0, message |-> ""]

NoLocals == [id |-> 0, tokens |-> NullTokens, email |-> "", verifier |-> 0,
             csrfToken |-> "", transId |-> "",
             cookies |-> << >>, setCookie |-> << >>, updatedCookies |-> << >>,
             tokenResponse |-> NoTokenResponse, submitBody |-> NoSubmitBody,
             newTokens |-> NullTokens]

NoResult == [kind |-> "none", access_token |-> 0, tokens |-> NullTokens, message |-> ""]

Failure(kind, msg) == [kind |-> kind, access_token |-> 0, tokens |-> NullTokens, message |-> msg]

\* A request to the identity provider.
Request(p, kind) == [from |-> p, kind |-> kind, refresh_token |-> 0,
                     code_challenge |-> 0, state |-> 0, code_verifier |-> 0,
                     csrf |-> "", tx |-> "", code |-> "", signInName |-> "",
                     cookie |-> << >>]


\* A response envelope (ApiResponse<T>): errorMessage "" and body 0 stand
\* for null.  Data that is not an envelope (an HTML page, an empty body) has
\* none of the three fields.
Envelope(errorNumber, errorMessage, body) ==
    [isEnvelope |-> TRUE, errorNumber |-> errorNumber,
     errorMessage |-> errorMessage, body |-> body]
NotAnEnvelope == [isEnvelope |-> FALSE, errorNumber |-> 0, errorMessage |-> "", body |-> 0]

\* What axios got for a request: the response (status outside 2xx:
\* error.response), or status "none" and the error's message when no
\* response was received.
Answer(status, statusText, data) == [status |-> status, statusText |-> statusText, data |-> data]
NoAnswer == Answer("", "", NotAnEnvelope)

\* No request() call of the caller is running.
NoRequest == [stage |-> "idle", id |-> 0, method |-> "", attempts |-> 0,
              received |-> NoAnswer]

\* The outcome of request(): the body returned, or the message of the Error
\* thrown (the pieces of its template string).
NoApiResult == [kind |-> "none", body |-> 0, message |-> << >>]
ApiReturn(body) == [kind |-> "ok", body |-> body, message |-> << >>]
ApiThrow(message) == [kind |-> "error", body |-> 0, message |-> message]

\* No accessory method of the caller is running.  `now` is the local of
\* getCachedDevice(); id, saw and writes note the number of the call, the
\* cached device and the write-throughs done when it was made.
NoAccCall == [method |-> "", stage |-> "idle", id |-> 0, now |-> 0, saw |-> 0,
              writes |-> 0, value |-> 0]

\* No set handler has stored a device yet.
NoWrite == [device |-> 0, at |-> 0, read |-> FALSE]

\* The outcome of an accessory method: the device returned, or the error.
NoAccResult == [kind |-> "none", device |-> 0, message |-> << >>]
AccReturn(device) == [kind |-> "ok", device |-> device, message |-> << >>]
AccThrow(message) == [kind |-> "error", device |-> 0, message |-> message]

\* Device['data'] as far as the set handlers read it: Mode.Val,
\* TempUnits.Val, Target.Heat and Target.Cool.  NoData stands for the data
\* of a response whose content is not followed.
Data(mode, units, heat, cool) == [mode |-> mode, units |-> units, heat |-> heat, cool |-> cool]
NoData == Data("", "", 0, 0)

\* DeviceSettings of a PATCH: the fields it carries; "" and 0 stand for a
\* field that is left out.
Settings(mode, heat, cool) == [Mode |-> mode, Heat |-> heat, Cool |-> cool]
NoSettings == Settings("", 0, 0)

\* The numbers of the requests of one behaviour.
RequestIds == 1..(2 * MaxOps)

\* The pollingInterval of the platform's configuration: a number, or not set.
Config(isSet, value) == [isSet |-> isSet, value |-> value]
NotConfigured == Config(FALSE, 0)

\* The configurations the platform is started with: no pollingInterval, and
\* values below, inside and above the documented range of 30 to 600.
ConfigChoices == {NotConfigured} \cup {Config(TRUE, v) : v \in {0, 10, 30, 120, 600, 3600}}

\* TekmarHomebridgePlatform constructor, line 774:
\* (config.pollingInterval as number) || 120
PollingInterval(c) == IF c.isSet /\ c.value # 0 THEN c.value ELSE 120

\* The polling timer of the accessory: its period and the time at which it
\* fires next, both in milliseconds; no timer before startPolling().
Timer(interval, next) == [interval |-> interval, next |-> next]
NoTimer == Timer(0, 0)

\* startPolling(), lines 572-583: setInterval(..., getPollingInterval() * 1000)
StartedTimer(seconds, now) == Timer(seconds * 1000, now + seconds * 1000)

\* Math.floor(Date.now() / 1000)
NowSec == clock \div 1000

\* isTokenExpired with a strict comparison
IsTokenExpiredStrict(t, bufferSeconds) == t.expires_at < NowSec + bufferSeconds

\* isTokenExpired(tokens, bufferSeconds = 300)
IsTokenExpired(t, bufferSeconds) == t.expires_at <= NowSec + bufferSeconds

\* crypto.createHash('sha256').update(verifier).digest('base64url'), as an
\* injective map on the verifier ids the model draws.
Sha256(v) == 100 + ((7 * v) % 11)

\* ------------------------------------------------------------- cookies
\* Header strings are sequences of characters.  A cookie jar (a JavaScript
\* object) is a sequence of <<name, value>> pairs with distinct names, in
\* insertion order.

\* s.indexOf(c) + 1: the first position of c in s, 0 when there is none
IndexOf(s, c) ==
    LET I == {i \in 1..Len(s) : s[i] = c}
    IN IF I = {} THEN 0 ELSE CHOOSE i \in I : \A j \in I : i <= j

\* s.trim()
Trim(s) ==
    LET I == {i \in 1..Len(s) : s[i] # " "}
    IN IF I = {} THEN << >>
       ELSE SubSeq(s, CHOOSE i \in I : \A j \in I : i <= j,
                      CHOOSE i \in I : \A j \in I : i >= j)

\* s.split(';')[0]
FirstPart(s) == IF IndexOf(s, ";") = 0 THEN s ELSE SubSeq(s, 1, IndexOf(s, ";") - 1)

\* cookies[name] = value
SetCookie(jar, name, value) ==
    IF \E i \in 1..Len(jar) : jar[i][1] = name
    THEN [i \in 1..Len(jar) |-> IF jar[i][1] = name THEN <<name, value>> ELSE jar[i]]
    ELSE Append(jar, <<name, value>>)

\* parseCookies(), lines 287-300: the loop over the Set-Cookie headers
RECURSIVE ParseInto(_, _)
ParseInto(jar, cookieHeaders) ==
    IF cookieHeaders = << >> THEN jar
    ELSE LET nameValue == FirstPart(Head(cookieHeaders))
             eqIndex == IndexOf(nameValue, "=")
             name == Trim(SubSeq(nameValue, 1, eqIndex - 1))
             value == Trim(SubSeq(nameValue, eqIndex + 1, Len(nameValue)))
         IN ParseInto(IF eqIndex > 1 /\ name # << >> /\ value # << >>
                      THEN SetCookie(jar, name, value) ELSE jar,
                      Tail(cookieHeaders))

\* parseCookies(setCookieHeader); the header is the list of Set-Cookie
\* lines of a response, empty when it has none (undefined).
ParseCookies(setCookieHeader) == ParseInto(<< >>, setCookieHeader)

\* { ...cookies, ...parsed } keeping only the new cookies
SpreadReplace(cookies, parsed) == parsed

\* { ...cookies, ...parsed }, line 525
RECURSIVE Spread(_, _)
Spread(cookies, parsed) ==
    IF parsed = << >> THEN cookies
    ELSE Spread(SetCookie(cookies, Head(parsed)[1], Head(parsed)[2]), Tail(parsed))

\* formatCookies(cookies): `name=value` joined by "; "
RECURSIVE FormatCookies(_)
FormatCookies(cookies) ==
    IF cookies = << >> THEN << >>
    ELSE LET one == Head(cookies)[1] \o <<"=">> \o Head(cookies)[2]
         IN IF Len(cookies) = 1 THEN one
            ELSE one \o <<";", " ">> \o FormatCookies(Tail(cookies))

TypeOK ==
    /\ pc \in [Procs -> {"idle", "LoadWait", "RefreshWait", "SaveOpen", "SaveWrite",
                         "AuthorizeWait", "SubmitWait", "ConfirmWait", "TokenWait",
                         "PlatformLoadWait"}]
    /\ op \in [Procs -> {"none", "getValidToken", "refreshToken", "login",
                         "loadTokens"}]
    /\ clock \in Nat /\ codeVerifier \in Nat
    /\ opsStarted \in Nat
    /\ config \in ConfigChoices /\ pollingInterval \in Nat
    /\ pollInterval.interval \in Nat /\ pollInterval.next \in Nat
    /\ \A p \in Procs : /\ api[p].stage \in {"idle", "token", "http"}
                        /\ api[p].attempts \in 0..1
                        /\ apiRet[p].kind \in {"none", "ok", "error"}

\* ------------------------------------------------ TekmarHomebridgePlatform
\* The thermostats an account may hold and the location they are in.
DeviceIds == {1}
AccountLocations == <<"home">>

\* api.hap.uuid.generate(deviceId), line 867: a hash of the device id, and
\* the device that accessory.context.device of an accessory names (line 45).
Uuid(device) == <<"uuid", device>>
DeviceOf(uuid) == uuid[2]

\* An accessory handler: `new TekmarThermostatAccessory(...)` for a device;
\* polling: its constructor ran startPolling() and nothing cleared the timer.
Handler(device) == [device |-> device, polling |-> TRUE]

\* The platform when Homebridge has constructed it (lines 743-785):
\*   credentials          config.email and config.password are both set
\*   cloud                the thermostats the API lists for the location
\*   restoring            cached accessories Homebridge has yet to restore
\*   accessories          the keys of this.accessories
\*   discoveredCacheUUIDs this.discoveredCacheUUIDs
\*   registered           the accessories Homebridge holds for the plugin
\*   unregistered         those unregisterPlatformAccessories() was called for
\*   handlers             the accessory handlers constructed so far
\*   stage, by            the await discoverDevices() is suspended at, and
\*                        the caller that runs it
\*   allDevices, failed   the devices collected, the locations whose fetch threw
\*   remaining            the locations the loop has yet to fetch
\*   fallback             what loadTokens() gave after a failed login
\*   requests             resource-API requests discoverDevices() has made
\*   fetches              device fetches of the handlers: device, and whether
\*                        its accessory was unregistered at the time
\*   ticks                timer ticks of the handlers so far
PlatformAt(credentials, cloud, cached) ==
    [credentials |-> credentials, cloud |-> cloud, restoring |-> cached,
     accessories |-> {}, discoveredCacheUUIDs |-> {}, registered |-> cached,
     unregistered |-> {}, handlers |-> << >>, stage |-> "idle", by |-> 0,
     allDevices |-> {}, failed |-> {}, remaining |-> << >>,
     fallback |-> "none", requests |-> 0, fetches |-> << >>, ticks |-> 0]

\* The platforms Homebridge may construct: with or without credentials, with
\* or without a cached accessory, the thermostat being in the account or not.
Platforms ==
    {PlatformAt(credentials, cloud, cached) :
        credentials \in BOOLEAN,
        cloud \in [{AccountLocations[i] : i \in DOMAIN AccountLocations} -> SUBSET DeviceIds],
        cached \in SUBSET {Uuid(d) : d \in DeviceIds}}

\* A platform that has its credentials, no cached accessory and one thermostat.
PlainPlatform == PlatformAt(TRUE, [l \in {"home"} |-> DeviceIds], {})

\* The state of the auth object, the API client and the accessory's cache
\* when the plugin has been loaded.
InitRun ==
    /\ codeVerifier = 0
    /\ clock = StartMs
    /\ net = {}
    /\ pc = [p \in Procs |-> "idle"]
    /\ op = [p \in Procs |-> "none"]
    /\ loc = [p \in Procs |-> NoLocals]
    /\ ret = [p \in Procs |-> NoResult]
    /\ sent = [p \in Procs |-> << >>]
    /\ touched = [p \in Procs |-> "none"]
    /\ opsStarted = 0
    /\ replaced = {}
    /\ api = [p \in Procs |-> NoRequest]
    /\ apiRet = [p \in Procs |-> NoApiResult]
    /\ http = {}
    /\ cachedDevice = 0
    /\ cacheTimestamp = 0
    /\ acc = [p \in Procs |-> NoAccCall]
    /\ accRet = [p \in Procs |-> NoAccResult]
    /\ gets = << >>
    /\ writes = 0
    /\ lastWrite = NoWrite
    /\ cachedReceived = 0
    /\ snapshot = [id \in RequestIds |-> NoData]
    /\ patches = [id \in RequestIds |-> NoSettings]

\* No tokens are in memory; a previous run may have left its record.
NoSession ==
    /\ tokens = NullTokens
    /\ file \in {FileAbsent, FileWith(PriorRecord)}

\* The platform was constructed without a pollingInterval in its
\* configuration and the accessory has started its polling timer.
Init ==
    /\ InitRun
    /\ NoSession
    /\ server = Data("Heat", "C", 20, 25)
    /\ config = NotConfigured
    /\ pollingInterval = PollingInterval(NotConfigured)
    /\ pollInterval = StartedTimer(PollingInterval(NotConfigured), StartMs)
    /\ platform = PlainPlatform

\* The platform was constructed with one of the configurations and its
\* accessory has not been constructed yet.
InitPlatform ==
    /\ InitRun
    /\ NoSession
    /\ server = Data("Heat", "C", 20, 25)
    /\ config \in ConfigChoices
    /\ pollingInterval = PollingInterval(config)
    /\ pollInterval = NoTimer
    /\ platform = PlainPlatform

\* Homebridge has constructed the platform, one of those it may construct,
\* and has not restored a cached accessory yet.
InitDiscover ==
    /\ InitRun
    /\ NoSession
    /\ server = Data("Heat", "C", 20, 25)
    /\ config = NotConfigured
    /\ pollingInterval = PollingInterval(NotConfigured)
    /\ pollInterval = NoTimer
    /\ platform \in Platforms

\* The tokens of a session whose access token is valid for an hour.
SessionTokens == StoredTokens(1, 1, T0 + 3600, T0 + RefreshLifetime)

\* The states of the device when the plugin starts.
ServerStates ==
    {Data("Auto", "C", 20, 25), Data("Auto", "F", 68, 77),
     Data("Heat", "C", 20, 25), Data("Off", "C", 20, 25)}

\* The plugin has logged in and its accessory polls with the default
\* interval; the device is in one of its states.
InitSet ==
    /\ InitRun
    /\ tokens = SessionTokens
    /\ file = FileWith(SessionTokens)
    /\ server \in ServerStates
    /\ config = NotConfigured
    /\ pollingInterval = PollingInterval(NotConfigured)
    /\ pollInterval = StartedTimer(PollingInterval(NotConfigured), StartMs)
    /\ platform = PlainPlatform

\* ------------------------------------------------------------- plumbing
\* A caller may start an operation: it is idle and the budget allows it.
\* Callers are interchangeable, so they make their first calls in the order
\* of their numbers.
CanStart(p) ==
    /\ pc[p] = "idle"
    /\ opsStarted < MaxOps
    /\ \A q \in 1..(p - 1) : op[q] # "none" \/ acc[q].id # 0

\* The number of the call caller p is in, or is making in this step.
CallId(p) == IF pc[p] = "idle" THEN opsStarted + 1 ELSE loc[p].id

\* The request of kind `kind` that caller p has in flight.
InFlight(p, kind) == {m \in net : m.from = p /\ m.kind = kind}

\* The per-caller state after a step of caller p.
Proc(p, c, o, l, r, s, t) ==
    /\ pc' = [pc EXCEPT ![p] = c]
    /\ op' = [op EXCEPT ![p] = o]
    /\ loc' = [loc EXCEPT ![p] = l]
    /\ ret' = [ret EXCEPT ![p] = r]
    /\ sent' = [sent EXCEPT ![p] = s]
    /\ touched' = [touched EXCEPT ![p] = t]

\* The operation of caller p ends with result r.
Finish(p, r) == Proc(p, "idle", op[p], NoLocals, r, sent[p], touched[p])

\* return tokens.access_token (getValidToken) / return tokens (the others)
Success(o, t) ==
    IF o = "getValidToken"
    THEN [kind |-> "ok", access_token |-> t.access_token, tokens |-> NullTokens, message |-> ""]
    ELSE [kind |-> "ok", access_token |-> 0, tokens |-> t, message |-> ""]

\* ------------------------------------------------------ token lifecycle
\* getValidToken() only: is the refresh skipped for tokens t?
StillValid(o, t) == o = "getValidToken" /\ ~IsTokenExpired(t, BufferSeconds)

\* refreshToken(), lines 644-658: the refresh grant is posted carrying the
\* refresh token of `tokens`, and `tokens` stays captured across the await.
SendRefresh(p, o, t, how) ==
    /\ net' = net \cup {[Request(p, "token_refresh") EXCEPT !.refresh_token = t.refresh_token]}
    /\ Proc(p, "RefreshWait", o, [NoLocals EXCEPT !.id = CallId(p), !.tokens = t], NoResult,
            <<"token_refresh">>, how)

\* The code of getValidToken() / refreshToken() that runs once `tokens` is
\* known: return the access token, or post the refresh grant.
WithTokens(p, o, t, how) ==
    IF StillValid(o, t)
    THEN /\ Proc(p, "idle", o, NoLocals, Success(o, t), << >>, how)
         /\ net' = net
    ELSE SendRefresh(p, o, t, how)

\* getValidToken() / refreshToken(), first line: with an in-memory copy no
\* await precedes the expiry check or the posting of the refresh grant;
\* without one the caller suspends in loadTokens() on fs.readFile.
TokensOrLoad(p, o) ==
    IF tokens # NullTokens
    THEN WithTokens(p, o, tokens, "none")
    ELSE /\ Proc(p, "LoadWait", o, [NoLocals EXCEPT !.id = CallId(p)], NoResult, << >>, "none")
         /\ net' = net

\* getValidToken() is called.
GetValidTokenCall(p) ==
    /\ CanStart(p)
    /\ opsStarted' = opsStarted + 1
    /\ TokensOrLoad(p, "getValidToken")
    /\ UNCHANGED <<upper, replaced, tokens, codeVerifier, file, clock>>

\* refreshToken() is called.
RefreshTokenCall(p) ==
    /\ CanStart(p)
    /\ opsStarted' = opsStarted + 1
    /\ TokensOrLoad(p, "refreshToken")
    /\ UNCHANGED <<upper, replaced, tokens, codeVerifier, file, clock>>

\* loadTokens(): readFile succeeds, this.tokens = JSON.parse(data).
LoadTokensDone(p) ==
    /\ pc[p] = "LoadWait"
    /\ file.state = "ok"
    /\ tokens' = file.data
    /\ WithTokens(p, op[p], file.data, "load")
    /\ UNCHANGED <<upper, replaced, codeVerifier, file, clock, opsStarted>>

\* loadTokens() returns null and the caller goes on to refresh without the
\* `if (!tokens)` check.
LoadTokensMissingRefresh(p) ==
    /\ pc[p] = "LoadWait"
    /\ file.state = "absent"
    /\ SendRefresh(p, op[p], NullTokens, "none")
    /\ UNCHANGED <<upper, replaced, tokens, codeVerifier, file, clock, opsStarted>>

\* loadTokens(): ENOENT, returns null; the caller throws 'No tokens found'.
LoadTokensMissing(p) ==
    /\ pc[p] = "LoadWait"
    /\ file.state = "absent"
    /\ Finish(p, Failure("NotAuthenticated", "No tokens found"))
    /\ UNCHANGED <<upper, replaced, tokens, codeVerifier, file, clock, net, opsStarted>>

\* loadTokens(): the file is there but holds no complete JSON document;
\* JSON.parse throws and the error is rethrown (line 325).
LoadTokensCorrupt(p) ==
    /\ pc[p] = "LoadWait"
    /\ file.state = "truncated"
    /\ Finish(p, Failure("LoadError", "Unexpected end of JSON input"))
    /\ UNCHANGED <<upper, replaced, tokens, codeVerifier, file, clock, net, opsStarted>>

\* The provider's answers to the token request of call number id: the
\* tokens it issues are new ones (the prior record holds number 1).
TokenResponses(id, withoutRefresh) ==
    {[access_token |-> id + 1, refresh_token |-> r,
      expires_on |-> e, refresh_token_expires_in |-> RefreshLifetime] :
        r \in {id + 1} \cup (IF withoutRefresh THEN {0} ELSE {}),
        e \in ExpiresOnChoices}

\* refreshToken(), lines 662-667
RefreshedTokens(old, resp) ==
    StoredTokens(resp.access_token,
                 IF resp.refresh_token # 0 THEN resp.refresh_token ELSE old.refresh_token,
                 resp.expires_on,
                 old.refresh_token_expires_at)

\* The refresh tokens replaced so far, once the refresh grant that carried
\* the refresh token of `old` is answered with resp: a response that brings a
\* new refresh token replaces the one it was asked with.
Replaced(old, resp) ==
    IF resp.refresh_token \notin {0, old.refresh_token}
    THEN replaced \cup {old.refresh_token}
    ELSE replaced

\* saveTokens(tokens), line 333: the in-memory copy is replaced before the
\* first await; the caller then suspends on fs.mkdir / fs.writeFile.
BeginSave(p, l, t) ==
    /\ tokens' = t
    /\ Proc(p, "SaveOpen", op[p], [l EXCEPT !.newTokens = t], NoResult, sent[p], "save")

\* The refresh grant is answered with a token response.
RefreshResponseOk(p) ==
    /\ pc[p] = "RefreshWait"
    /\ \E m \in InFlight(p, "token_refresh"), resp \in TokenResponses(loc[p].id, TRUE) :
        /\ net' = net \ {m}
        /\ replaced' = Replaced(loc[p].tokens, resp)
        /\ BeginSave(p, [loc[p] EXCEPT !.tokenResponse = resp],
                     RefreshedTokens(loc[p].tokens, resp))
    /\ UNCHANGED <<upper, codeVerifier, file, clock, opsStarted>>

\* The failure of the refresh grant is swallowed and the stale tokens are
\* handed to the caller.
RefreshResponseErrorStale(p) ==
    /\ pc[p] = "RefreshWait"
    /\ \E m \in InFlight(p, "token_refresh") : net' = net \ {m}
    /\ Finish(p, Success(op[p], loc[p].tokens))
    /\ UNCHANGED <<upper, replaced, tokens, codeVerifier, file, clock, opsStarted>>

\* The refresh grant fails or is rejected: axios.post rejects (line 654) and
\* nothing catches it.
RefreshResponseError(p) ==
    /\ pc[p] = "RefreshWait"
    /\ \E m \in InFlight(p, "token_refresh") : net' = net \ {m}
    /\ Finish(p, Failure("RefreshFailure", "Request failed"))
    /\ UNCHANGED <<upper, replaced, tokens, codeVerifier, file, clock, opsStarted>>

\* saveTokens(): fs.mkdir done, fs.writeFile has opened the file ('w' flag:
\* the file is created or truncated) and not yet written the data.
SaveOpen(p) ==
    /\ pc[p] = "SaveOpen"
    /\ file' = FileTruncated
    /\ Proc(p, "SaveWrite", op[p], loc[p], ret[p], sent[p], touched[p])
    /\ UNCHANGED <<upper, replaced, tokens, codeVerifier, clock, net, opsStarted>>

\* saveTokens(): fs.mkdir or the open of fs.writeFile fails.
SaveOpenError(p) ==
    /\ pc[p] = "SaveOpen"
    /\ Finish(p, Failure("SaveError", "EACCES"))
    /\ UNCHANGED <<upper, replaced, tokens, codeVerifier, file, clock, net, opsStarted>>

\* saveTokens(): the data is written and the file closed; the operation
\* returns (login: line 401, refreshToken: line 670, getValidToken: line 363).
SaveWrite(p) ==
    /\ pc[p] = "SaveWrite"
    /\ file' = FileWith(loc[p].newTokens)
    /\ Finish(p, Success(op[p], loc[p].newTokens))
    /\ UNCHANGED <<upper, replaced, tokens, codeVerifier, clock, net, opsStarted>>

\* saveTokens(): writing the data fails after the file was opened.
SaveWriteError(p) ==
    /\ pc[p] = "SaveWrite"
    /\ Finish(p, Failure("SaveError", "ENOSPC"))
    /\ UNCHANGED <<upper, replaced, tokens, codeVerifier, file, clock, net, opsStarted>>

\* ------------------------------------------------------------- login
Credentials == {"user@example.com"}

\* The inline settings of the login page: "csrf":"..." and "transId":"...";
\* "" stands for a page without the pair (extractJavaScriptVar returns null).
CsrfChoices == {"abc", ""}
TransIdChoices == {"t1", ""}

\* The SelfAsserted answers that axios delivers (validateStatus: 200 or 302).
\* The body's status is the JSON string "200", the JSON number 200, or the
\* JSON string "400"; the message may be missing.
SubmitBody(h, type, status, msg) ==
    [httpStatus |-> h, statusType |-> type, status |-> status, message |-> msg]

SubmitBodies ==
    {SubmitBody(200, "string", 200, ""),
     SubmitBody(302, "string", 200, ""),
     SubmitBody(200, "number", 200, ""),
     SubmitBody(302, "string", 400, ""),
     SubmitBody(200, "string", 400, "Your password is incorrect")}

\* The Set-Cookie lines of the login page: none, or two cookies of which the
\* first carries an attribute.
PageSetCookies == {<< >>, << <<"a", "=", "1", ";", " ", "P">>, <<"b", "=", "2">> >>}

\* The Set-Cookie lines of the SelfAsserted answer: none, or one that sets
\* cookie a again, one with blanks around the name, and one with no value.
SubmitSetCookies == {<< >>, << <<"a", "=", "9">>, <<" ", "c", " ", "=", "3">>, <<"b", "=">> >>}

\* The Location header of the /confirmed answer ("" = no header).
Locations == {"", "msalc832c38c://auth?code=XYZ", "msalc832c38c://auth?error=access_denied"}

\* redirectUrl.match(/code=([^&]+)/), "" = no match
ExtractCode(redirectUrl) ==
    IF redirectUrl = "msalc832c38c://auth?code=XYZ" THEN "XYZ" ELSE ""

\* generatePKCE(): the verifier is a fresh random draw, one per call of
\* login(), and the challenge is its digest.
GeneratePKCE == [verifier |-> opsStarted + 1, challenge |-> Sha256(opsStarted + 1)]

\* generateState(): crypto.randomUUID(), a fresh random draw
GenerateState == opsStarted + 1

\* result.status != '200': the loose comparison also takes the number 200
CredentialsAcceptedLoose(body) == body.status = 200

\* submitCredentials(), line 514: result.status !== '200'
CredentialsAccepted(body) == body.statusType = "string" /\ body.status = 200

\* login() is called; getLoginPage() generates the PKCE pair, stores the
\* verifier in this.codeVerifier and sends the authorize GET.
Login(p) ==
    /\ CanStart(p)
    /\ opsStarted' = opsStarted + 1
    /\ \E email \in Credentials :
        LET pkce == GeneratePKCE IN
        /\ codeVerifier' = pkce.verifier
        /\ net' = net \cup {[Request(p, "authorize") EXCEPT
                                !.code_challenge = pkce.challenge,
                                !.state = GenerateState]}
        /\ Proc(p, "AuthorizeWait", "login",
                [NoLocals EXCEPT !.id = CallId(p), !.email = email,
                                 !.verifier = pkce.verifier],
                NoResult, <<"authorize">>, "none")
    /\ UNCHANGED <<replaced, tokens, file, clock>>

\* login() is called by the CLI or a test.
LoginCall(p) == Login(p) /\ UNCHANGED upper

\* submitCredentials() is called without `await`: getAuthorizationCode()
\* sends the confirmed GET while the SelfAsserted POST is still in flight.
AuthorizePageNoAwait(p) ==
    /\ pc[p] = "AuthorizeWait"
    /\ \E m \in InFlight(p, "authorize"), csrf \in CsrfChoices, transId \in TransIdChoices,
          setCookie \in PageSetCookies :
        /\ csrf # "" /\ transId # ""
        /\ net' = (net \ {m}) \cup
                    {[Request(p, "selfasserted") EXCEPT
                         !.csrf = csrf, !.tx = transId, !.signInName = loc[p].email,
                         !.cookie = FormatCookies(ParseCookies(setCookie))],
                     [Request(p, "confirmed") EXCEPT !.csrf = csrf, !.tx = transId,
                         !.cookie = FormatCookies(ParseCookies(setCookie))]}
        /\ Proc(p, "ConfirmWait", op[p],
                [loc[p] EXCEPT !.csrfToken = csrf, !.transId = transId,
                               !.cookies = ParseCookies(setCookie)],
                ret[p], sent[p] \o <<"selfasserted", "confirmed">>, touched[p])
    /\ UNCHANGED <<upper, replaced, tokens, codeVerifier, file, clock, opsStarted>>

\* getLoginPage(): a 200 page with both fields; submitCredentials() posts the
\* form with the CSRF token and the transaction id.
AuthorizePage(p) ==
    /\ pc[p] = "AuthorizeWait"
    /\ \E m \in InFlight(p, "authorize"), csrf \in CsrfChoices, transId \in TransIdChoices,
          setCookie \in PageSetCookies :
        /\ csrf # "" /\ transId # ""
        /\ net' = (net \ {m}) \cup {[Request(p, "selfasserted") EXCEPT
                                        !.csrf = csrf, !.tx = transId,
                                        !.signInName = loc[p].email,
                                        !.cookie = FormatCookies(ParseCookies(setCookie))]}
        /\ Proc(p, "SubmitWait", op[p],
                [loc[p] EXCEPT !.csrfToken = csrf, !.transId = transId,
                               !.cookies = ParseCookies(setCookie)],
                ret[p], Append(sent[p], "selfasserted"), touched[p])
    /\ UNCHANGED <<upper, replaced, tokens, codeVerifier, file, clock, opsStarted>>

\* A page that lacks a field makes getLoginPage() fetch the page again.
AuthorizePageUnparsableRetry(p) ==
    /\ pc[p] = "AuthorizeWait"
    /\ Len(sent[p]) < 2
    /\ \E m \in InFlight(p, "authorize"), csrf \in CsrfChoices, transId \in TransIdChoices :
        /\ csrf = "" \/ transId = ""
        /\ net' = net
    /\ Proc(p, "AuthorizeWait", op[p], loc[p], ret[p], Append(sent[p], "authorize"), touched[p])
    /\ UNCHANGED <<upper, replaced, tokens, codeVerifier, file, clock, opsStarted>>

\* getLoginPage(): a 200 page that lacks the CSRF token or the transaction id.
AuthorizePageUnparsable(p) ==
    /\ pc[p] = "AuthorizeWait"
    /\ \E m \in InFlight(p, "authorize"), csrf \in CsrfChoices, transId \in TransIdChoices :
        /\ csrf = "" \/ transId = ""
        /\ net' = net \ {m}
    /\ Finish(p, Failure("PageParseFailure",
                         "Failed to extract CSRF token or transaction ID from login page"))
    /\ UNCHANGED <<upper, replaced, tokens, codeVerifier, file, clock, opsStarted>>

\* A provider request of the login flow is not answered, or is answered with
\* a status its validateStatus rejects: axios rejects, login() rethrows.
LoginRequestError(p) ==
    /\ pc[p] \in {"AuthorizeWait", "SubmitWait", "ConfirmWait", "TokenWait"}
    /\ \E m \in {r \in net : r.from = p} : net' = net \ {m}
    /\ Finish(p, Failure(CASE pc[p] = "AuthorizeWait" -> "PageFetchFailure"
                           [] pc[p] = "SubmitWait" -> "SubmitFailure"
                           [] pc[p] = "ConfirmWait" -> "RedirectFailure"
                           [] OTHER -> "TokenExchangeFailure",
                         "Request failed"))
    /\ UNCHANGED <<upper, replaced, tokens, codeVerifier, file, clock, opsStarted>>

\* submitCredentials(): the answer is delivered; getAuthorizationCode() is
\* called when the body's status is the string "200", else login fails.
SubmitAnswered(p) ==
    /\ pc[p] = "SubmitWait"
    /\ \E m \in InFlight(p, "selfasserted"), body \in SubmitBodies,
          setCookie \in SubmitSetCookies :
        IF CredentialsAccepted(body)
        THEN LET updatedCookies == Spread(loc[p].cookies, ParseCookies(setCookie)) IN
             /\ net' = (net \ {m}) \cup {[Request(p, "confirmed") EXCEPT
                                             !.csrf = loc[p].csrfToken,
                                             !.tx = loc[p].transId,
                                             !.cookie = FormatCookies(updatedCookies)]}
             /\ Proc(p, "ConfirmWait", op[p],
                     [loc[p] EXCEPT !.submitBody = body, !.setCookie = setCookie,
                                    !.updatedCookies = updatedCookies],
                     ret[p], Append(sent[p], "confirmed"), touched[p])
        ELSE /\ net' = net \ {m}
             /\ Proc(p, "idle", op[p], [NoLocals EXCEPT !.submitBody = body],
                     Failure("InvalidCredentials",
                             IF body.message # "" THEN body.message ELSE "Unknown error"),
                     sent[p], touched[p])
    /\ UNCHANGED <<upper, replaced, tokens, codeVerifier, file, clock, opsStarted>>

\* exchangeCodeForTokens() waits for the answer to a request that was not
\* sent.
SendExchangeUnsent(p, m, authCode) ==
    /\ net' = net \ {m}
    /\ Proc(p, "TokenWait", op[p],
            [loc[p] EXCEPT !.submitBody = NoSubmitBody, !.cookies = << >>,
                           !.setCookie = << >>, !.updatedCookies = << >>],
            ret[p], sent[p], touched[p])

\* exchangeCodeForTokens(authCode), lines 590-620: the code is posted with
\* this.codeVerifier as it is at the time of the call.
SendExchange(p, m, authCode) ==
    IF codeVerifier = 0
    THEN /\ net' = net \ {m}
         /\ Finish(p, Failure("TokenExchangeFailure", "PKCE verifier not found"))
    ELSE /\ net' = (net \ {m}) \cup {[Request(p, "token_code") EXCEPT
                                         !.code = authCode,
                                         !.code_verifier = codeVerifier]}
         /\ Proc(p, "TokenWait", op[p],
                 [loc[p] EXCEPT !.submitBody = NoSubmitBody, !.cookies = << >>,
                                !.setCookie = << >>, !.updatedCookies = << >>],
                 ret[p], Append(sent[p], "token_code"), touched[p])

\* getAuthorizationCode(): a 302 answer; the code is taken from its Location.
ConfirmAnswered(p) ==
    /\ pc[p] = "ConfirmWait"
    /\ \E m \in InFlight(p, "confirmed"), redirectUrl \in Locations :
        IF redirectUrl = ""
        THEN /\ net' = net \ {m}
             /\ Finish(p, Failure("RedirectFailure", "No redirect URL after login confirmation"))
        ELSE IF ExtractCode(redirectUrl) = ""
        THEN /\ net' = net \ {m}
             /\ Finish(p, Failure("RedirectFailure", "No authorization code in redirect URL"))
        ELSE SendExchange(p, m, ExtractCode(redirectUrl))
    /\ UNCHANGED <<upper, replaced, tokens, codeVerifier, file, clock, opsStarted>>

\* login(), lines 392-397
LoginTokens(resp) ==
    StoredTokens(resp.access_token, resp.refresh_token, resp.expires_on,
                 NowSec + resp.refresh_token_expires_in)

\* The token endpoint answers the authorization-code grant; saveTokens().
TokenResponseOk(p) ==
    /\ pc[p] = "TokenWait"
    /\ \E m \in InFlight(p, "token_code"), resp \in TokenResponses(loc[p].id, FALSE) :
        /\ net' = net \ {m}
        /\ BeginSave(p, [loc[p] EXCEPT !.tokenResponse = resp], LoginTokens(resp))
    /\ UNCHANGED <<upper, replaced, codeVerifier, file, clock, opsStarted>>

\* Time passes.  Only the expiry check of getValidToken() and the token
\* record built by login() read the clock, so time is let pass only while a
\* caller may still reach one of them.
Tick ==
    /\ clock < StartMs + MaxTicks * TickMs
    /\ \E p \in Procs : CanStart(p) \/ pc[p] \in {"LoadWait", "TokenWait"}
    /\ clock' = clock + TickMs
    /\ UNCHANGED <<upper, replaced, tokens, codeVerifier, file, net,
                   pc, op, loc, ret, sent, touched, opsStarted>>

\* ------------------------------------------------- WattsApiClient.request
\* The methods of the resource API the client uses.
Methods == {"GET", "PATCH"}

\* The resource-API request that caller p has in flight.
HttpInFlight(p) == {m \in http : m.from = p}

\* request(config), line 47: this.http.request() runs the request
\* interceptor, which calls getValidToken() and awaits it (lines 35-36).
StartRequest(p, method) ==
    /\ api' = [api EXCEPT ![p] = [NoRequest EXCEPT !.stage = "token", !.id = CallId(p),
                                                  !.method = method]]
    /\ apiRet' = [apiRet EXCEPT ![p] = NoApiResult]
    /\ TokensOrLoad(p, "getValidToken")

\* A method of the API client is called by the platform or the CLI.
RequestCall(p) ==
    /\ CanStart(p)
    /\ api[p].stage = "idle"
    /\ opsStarted' = opsStarted + 1
    /\ \E method \in Methods : StartRequest(p, method)
    /\ UNCHANGED <<accVars, replaced, tokens, codeVerifier, file, clock, http>>

\* getValidToken() has returned or thrown and the interceptor of caller p
\* has not resumed yet.  It resumes as a microtask, before any other event.
InterceptorPending(p) == api[p].stage = "token" /\ pc[p] = "idle"

\* The errors request() throws when getValidToken() threw e.  A failed
\* refresh grant is an AxiosError of the token endpoint: request() takes it
\* for a failure of its own call (lines 56-61), with a response that is no
\* envelope, or without a response.  Any other error is rethrown (line 63).
InterceptorErrors(e) ==
    IF e.kind = "RefreshFailure"
    THEN {<<"HTTP ", "400", ": ", "Bad Request">>, <<"Network error: ", e.message>>}
    ELSE {<<e.message>>}

\* The interceptor sends the request although getValidToken() threw.
InterceptorDoneIgnoreFailure(p) ==
    /\ InterceptorPending(p)
    /\ http' = http \cup {[from |-> p, method |-> api[p].method,
                           bearer |-> ret[p].access_token]}
    /\ api' = [api EXCEPT ![p].stage = "http", ![p].attempts = @ + 1]
    /\ apiRet' = apiRet
    /\ UNCHANGED <<accVars, replaced, tokens, codeVerifier, file, clock, net,
                   pc, op, loc, ret, sent, touched, opsStarted>>

\* The interceptor resumes (lines 36-38): with a token the request is sent
\* carrying it; when getValidToken() threw, nothing is sent and request()
\* throws.
InterceptorDone(p) ==
    /\ InterceptorPending(p)
    /\ IF ret[p].kind = "ok"
       THEN /\ http' = http \cup {[from |-> p, method |-> api[p].method,
                                   bearer |-> ret[p].access_token]}
            /\ api' = [api EXCEPT ![p].stage = "http", ![p].attempts = @ + 1]
            /\ apiRet' = apiRet
       ELSE /\ \E message \in InterceptorErrors(ret[p]) :
                  apiRet' = [apiRet EXCEPT ![p] = ApiThrow(message)]
            /\ api' = [api EXCEPT ![p].stage = "idle"]
            /\ http' = http
    /\ UNCHANGED <<accVars, replaced, tokens, codeVerifier, file, clock, net,
                   pc, op, loc, ret, sent, touched, opsStarted>>

\* The data of the answers with a 2xx status to the request of call number
\* id, whose body is a new snapshot of the device: an envelope with a body, one
\* with errorNumber 0 and no body, one with an error and a message, one with
\* an error and no message, and data that is no envelope.
OkData(id) ==
    {Envelope(0, "", id), Envelope(0, "", 0), Envelope(5, "Device offline", 0),
     Envelope(5, "", 0), NotAnEnvelope}

\* The answers with a 2xx status to the request of call number id.
OkAnswers(id) == {Answer("200", "OK", data) : data \in OkData(id)}

\* The answers with a status outside 2xx (axios rejects with error.response
\* set): with an envelope that carries a message, one that carries none, or
\* data that is no envelope.
ErrorAnswers ==
    {Answer("404", "Not Found", Envelope(404, "Device not found", 0)),
     Answer("400", "Bad Request", Envelope(400, "", 0)),
     Answer("503", "Service Unavailable", NotAnEnvelope)}

\* The failures without a response (axios rejects, error.response unset).
TransportErrors == {Answer("none", "connect ETIMEDOUT", NotAnEnvelope)}

\* request(), lines 50-51: apiResponse.errorNumber != 0 with a loose test
\* that takes data without the field for a success
EnvelopeFailedLoose(data) == data.isEnvelope /\ data.errorNumber # 0

\* request(), line 50: apiResponse.errorNumber !== 0
EnvelopeFailed(data) == ~data.isEnvelope \/ data.errorNumber # 0

\* request(), line 51: errorMessage || `API error: ${errorNumber}`
EnvelopeError(data) ==
    IF data.isEnvelope /\ data.errorMessage # ""
    THEN <<data.errorMessage>>
    ELSE <<"API error: ", IF data.isEnvelope THEN ToString(data.errorNumber) ELSE "undefined">>

\* request(), line 59, without the look at the response data
ResponseErrorBare(answer) == <<"HTTP ", answer.status, ": ", answer.statusText>>

\* request(), line 59: errorMessage || `HTTP ${status}: ${statusText}`
ResponseError(answer) ==
    IF answer.data.isEnvelope /\ answer.data.errorMessage # ""
    THEN <<answer.data.errorMessage>>
    ELSE <<"HTTP ", answer.status, ": ", answer.statusText>>

\* request() of caller p ends with outcome r after it received `answer`.
RequestEnds(p, m, answer, r) ==
    /\ http' = http \ {m}
    /\ api' = [api EXCEPT ![p].stage = "idle", ![p].received = answer]
    /\ apiRet' = [apiRet EXCEPT ![p] = r]

\* The request is answered with a 2xx status (lines 47-54).
HttpResponse(p) ==
    /\ api[p].stage = "http"
    /\ \E m \in HttpInFlight(p), answer \in OkAnswers(api[p].id) :
          RequestEnds(p, m, answer,
                      IF EnvelopeFailed(answer.data)
                      THEN ApiThrow(EnvelopeError(answer.data))
                      ELSE ApiReturn(answer.data.body))
    /\ UNCHANGED <<accVars, replaced, tokens, codeVerifier, file, clock, net,
                   pc, op, loc, ret, sent, touched, opsStarted>>

\* A failed attempt is followed by a second attempt instead of being
\* surfaced.
HttpErrorResponseRetry(p) ==
    /\ api[p].stage = "http"
    /\ \E answer \in ErrorAnswers :
          IF api[p].attempts < 2
          THEN /\ api' = [api EXCEPT ![p].attempts = @ + 1, ![p].received = answer]
               /\ UNCHANGED <<http, apiRet>>
          ELSE \E m \in HttpInFlight(p) :
                  RequestEnds(p, m, answer, ApiThrow(ResponseError(answer)))
    /\ UNCHANGED <<accVars, replaced, tokens, codeVerifier, file, clock, net,
                   pc, op, loc, ret, sent, touched, opsStarted>>

\* The request is answered with a status outside 2xx (lines 56-60).
HttpErrorResponse(p) ==
    /\ api[p].stage = "http"
    /\ \E m \in HttpInFlight(p), answer \in ErrorAnswers :
          RequestEnds(p, m, answer, ApiThrow(ResponseError(answer)))
    /\ UNCHANGED <<accVars, replaced, tokens, codeVerifier, file, clock, net,
                   pc, op, loc, ret, sent, touched, opsStarted>>

\* The request gets no response (line 61).
HttpNoResponse(p) ==
    /\ api[p].stage = "http"
    /\ \E m \in HttpInFlight(p), answer \in TransportErrors :
          RequestEnds(p, m, answer, ApiThrow(<<"Network error: ", answer.statusText>>))
    /\ UNCHANGED <<accVars, replaced, tokens, codeVerifier, file, clock, net,
                   pc, op, loc, ret, sent, touched, opsStarted>>

\* ----------------------------------------- TekmarThermostatAccessory cache
\* The token and request state a step of the accessory leaves alone.
authVars == <<tokens, codeVerifier, file, net, pc, op, loc, ret, sent, touched, replaced>>
lowerVars == <<authVars, api, apiRet, http>>

\* The request() call awaited by the accessory method of caller p has
\* returned or thrown: its frame is gone.
RequestTaken(p) ==
    /\ api' = [api EXCEPT ![p] = NoRequest]
    /\ apiRet' = [apiRet EXCEPT ![p] = NoApiResult]
    /\ UNCHANGED <<authVars, http>>

\* getCachedDevice(), line 141, with the entry still served at the age of
\* cacheTimeout
CacheValidInclusive(now) == cachedDevice # 0 /\ (now - cacheTimestamp) <= CacheTimeout

\* getCachedDevice(), line 141
CacheValid(now) == cachedDevice # 0 /\ (now - cacheTimestamp) < CacheTimeout

\* getCachedDevice(), line 141, for the entry a handler has just stored
EntryValid(device, timestamp, now) == device # 0 /\ (now - timestamp) < CacheTimeout

\* An accessory method may be called by caller p.
CanCall(p) == CanStart(p) /\ api[p].stage = "idle" /\ acc[p].stage = "idle"

\* The accessory call of caller p that starts in this step.
AccCall(p, method, stage) ==
    [method |-> method, stage |-> stage, id |-> opsStarted + 1, now |-> clock,
     saw |-> cachedDevice, writes |-> writes, value |-> 0]

\* The entry of `gets` for a getCachedDevice() call that returns `device`.
GetRecord(call, fetched, device) ==
    [id |-> call.id, at |-> call.now, saw |-> call.saw, writes |-> call.writes,
     fetched |-> fetched, device |-> device]

\* A getCachedDevice() call is made: the next one after the last
\* write-through is this one.
WriteRead == lastWrite' = [lastWrite EXCEPT !.read = TRUE]

\* getCachedDevice(), lines 147-148: the fetched device is stored with the
\* time of the call.  It was received now.
StoreFetched(device, now) ==
    /\ cachedDevice' = device
    /\ cacheTimestamp' = now
    /\ cachedReceived' = clock

\* updateCache(device), lines 186-187
UpdateCache(device) ==
    /\ cachedDevice' = device
    /\ cacheTimestamp' = clock

\* The accessory method of caller p goes on with a further call of the API
\* client: a request() call of its own, with a getValidToken() of its own.
NextRequest(p, stage, method) ==
    /\ acc' = [acc EXCEPT ![p].stage = stage, ![p].now = clock,
                          ![p].saw = cachedDevice', ![p].writes = writes]
    /\ accRet' = accRet
    /\ opsStarted' = opsStarted + 1
    /\ StartRequest(p, method)
    /\ UNCHANGED <<tokens, codeVerifier, file, http, replaced, platformVars>>

\* The accessory method of caller p ends with outcome r.
AccEnds(p, r) ==
    /\ acc' = [acc EXCEPT ![p].stage = "idle"]
    /\ accRet' = [accRet EXCEPT ![p] = r]
    /\ opsStarted' = opsStarted
    /\ RequestTaken(p)
    /\ UNCHANGED platformVars

\* getCachedDevice() is called (lines 140-146): a valid entry is returned,
\* otherwise apiClient.getDevice() is called and awaited.
GetCachedDeviceCall(p) ==
    /\ CanCall(p)
    /\ opsStarted' = opsStarted + 1
    /\ IF CacheValid(clock)
       THEN /\ acc' = [acc EXCEPT ![p] = AccCall(p, "getCachedDevice", "idle")]
            /\ accRet' = [accRet EXCEPT ![p] = AccReturn(cachedDevice)]
            /\ gets' = Append(gets, GetRecord(AccCall(p, "getCachedDevice", "idle"),
                                              FALSE, cachedDevice))
            /\ UNCHANGED lowerVars
       ELSE /\ acc' = [acc EXCEPT ![p] = AccCall(p, "getCachedDevice", "fetch")]
            /\ accRet' = [accRet EXCEPT ![p] = NoAccResult]
            /\ StartRequest(p, "GET")
            /\ UNCHANGED <<gets, tokens, codeVerifier, file, http, replaced>>
    /\ WriteRead
    /\ UNCHANGED <<cachedDevice, cacheTimestamp, cachedReceived, writes, clock, platformVars>>
    /\ UNCHANGED deviceVars

\* The request() call made by the accessory method of caller p has ended
\* and the method has not resumed yet.
AccPending(p) == acc[p].stage # "idle" /\ api[p].stage = "idle"

\* getCachedDevice() resumes (lines 146-149): the device is stored with the
\* time of the call and returned; an error of getDevice() is passed on.
GetCachedDeviceResume(p) ==
    /\ acc[p].stage = "fetch" /\ AccPending(p)
    /\ IF apiRet[p].kind = "ok"
       THEN /\ StoreFetched(apiRet[p].body, acc[p].now)
            /\ gets' = Append(gets, GetRecord(acc[p], TRUE, apiRet[p].body))
            /\ AccEnds(p, AccReturn(apiRet[p].body))
       ELSE /\ UNCHANGED <<cachedDevice, cacheTimestamp, cachedReceived, gets>>
            /\ AccEnds(p, AccThrow(apiRet[p].message))
    /\ UNCHANGED <<writes, lastWrite, clock, deviceVars>>

\* The values setTargetHeatingCoolingState() is called with: one of the
\* map and one outside it.
ModeValues == {1, 4}

\* modeValueMap, lines 33-38; "" stands for undefined.
ModeValueMap(value) ==
    CASE value = 0 -> "Off" [] value = 1 -> "Heat" [] value = 2 -> "Cool"
      [] value = 3 -> "Auto" [] OTHER -> ""

\* The request of the call that starts in this step carries `settings`.
Carries(settings) ==
    /\ patches' = [patches EXCEPT ![opsStarted + 1] = settings]
    /\ UNCHANGED <<server, snapshot>>

\* setTargetHeatingCoolingState(value) is called (lines 271-281): with a
\* value of the map apiClient.setDeviceMode() is called and awaited; any
\* other value makes the handler throw.
SetModeCall(p) ==
    /\ CanCall(p)
    /\ opsStarted' = opsStarted + 1
    /\ \E value \in ModeValues :
          IF ModeValueMap(value) # ""
          THEN /\ acc' = [acc EXCEPT ![p] = [AccCall(p, "setTargetHeatingCoolingState", "write")
                                               EXCEPT !.value = value]]
               /\ accRet' = [accRet EXCEPT ![p] = NoAccResult]
               /\ StartRequest(p, "PATCH")
               /\ Carries(Settings(ModeValueMap(value), 0, 0))
               /\ UNCHANGED <<tokens, codeVerifier, file, http, replaced>>
          ELSE /\ acc' = [acc EXCEPT ![p] = [AccCall(p, "setTargetHeatingCoolingState", "idle")
                                               EXCEPT !.value = value]]
               /\ accRet' = [accRet EXCEPT ![p] = AccThrow(<<"SERVICE_COMMUNICATION_FAILURE">>)]
               /\ UNCHANGED <<lowerVars, deviceVars>>
    /\ UNCHANGED <<cachedDevice, cacheTimestamp, cachedReceived, gets, writes, lastWrite,
                   clock, platformVars>>

\* A set handler that stamps the entry although its write failed.
SetModeResumeStampOnError(p) ==
    /\ acc[p].stage = "write" /\ AccPending(p)
    /\ IF apiRet[p].kind = "ok"
       THEN /\ UpdateCache(apiRet[p].body)
            /\ cachedReceived' = clock
            /\ writes' = writes + 1
            /\ lastWrite' = [device |-> apiRet[p].body, at |-> clock, read |-> FALSE]
            /\ AccEnds(p, AccReturn(apiRet[p].body))
       ELSE /\ cacheTimestamp' = clock
            /\ UNCHANGED <<cachedDevice, cachedReceived, writes, lastWrite>>
            /\ AccEnds(p, AccThrow(<<"SERVICE_COMMUNICATION_FAILURE">>))
    /\ UNCHANGED <<gets, clock, deviceVars>>

\* A set handler resumes after its write (lines 282-289, 398-405):
\* updateCache() stores the device of the answer with the current time; an
\* error is turned into a HapStatusError.
SetModeResume(p) ==
    /\ acc[p].stage = "write" /\ AccPending(p)
    /\ IF apiRet[p].kind = "ok"
       THEN /\ UpdateCache(apiRet[p].body)
            /\ cachedReceived' = clock
            /\ writes' = writes + 1
            /\ lastWrite' = [device |-> apiRet[p].body, at |-> clock, read |-> FALSE]
            /\ AccEnds(p, AccReturn(apiRet[p].body))
       ELSE /\ UNCHANGED <<cachedDevice, cacheTimestamp, cachedReceived, writes, lastWrite>>
            /\ AccEnds(p, AccThrow(<<"SERVICE_COMMUNICATION_FAILURE">>))
    /\ UNCHANGED <<gets, clock, deviceVars>>

\* data.Mode.Val of a device whose data is not followed: a mode in which
\* the target temperature can be set, or one in which it cannot.
TargetModes == {"Heat", "Off"}

\* data.Mode.Val of the device a set handler reads.
ModesOf(device) ==
    IF snapshot[device] = NoData THEN TargetModes ELSE {snapshot[device].mode}

\* setTargetTemperature() writing in every mode of the device
SettableModesAndOff == {"Heat", "Cool", "Auto", "Off"}

\* The modes in which setTargetTemperature() writes (lines 386-393).
SettableModes == {"Heat", "Cool", "Auto"}

\* The temperatures, in degrees Celsius, the set handlers are called with.
TargetValues == {15}
HeatingValues == {15}
CoolingValues == {30}

\* data.TempUnits?.Val || 'C'
Units(data) == IF data.units = "" THEN "C" ELSE data.units

\* convertFromCelsius(tempC, units), lines 203-208
ConvertFromCelsius(tempC, units) == IF units = "F" THEN (tempC * 9) \div 5 + 32 ELSE tempC

Max(a, b) == IF a > b THEN a ELSE b
Min(a, b) == IF a < b THEN a ELSE b

\* clampTemperature(temp, type), lines 172-180
ClampTemperature(temp, type) ==
    IF type = "cooling" THEN Max(10, Min(35, temp))
    ELSE IF type = "heating" THEN Max(0, Min(25, temp))
    ELSE Max(0 - 50, Min(100, temp))

\* setTargetTemperature(value), lines 376-393: the Settings written in a
\* mode that allows it.  In Auto mode the cool target read is sent along.
TargetSettings(data, mode, value) ==
    LET temp == ConvertFromCelsius(value, Units(data))
    IN  IF mode = "Heat" THEN Settings("", temp, 0)
        ELSE IF mode = "Cool" THEN Settings("", 0, temp)
        ELSE Settings("", temp, data.cool)

\* setTargetTemperature(value), lines 386-395, once the device data is
\* there: the write is sent, or the mode does not allow it and the handler
\* throws (line 402).
SetTemperature(p, data, mode) ==
    IF mode \in SettableModes
    THEN /\ NextRequest(p, "write", "PATCH")
         /\ Carries(TargetSettings(data, mode, acc[p].value))
    ELSE /\ AccEnds(p, AccThrow(<<"SERVICE_COMMUNICATION_FAILURE">>))
         /\ UNCHANGED deviceVars

\* setTargetTemperature(value) is called (lines 370-372): getDeviceData()
\* takes the device from the cache or fetches it.
SetTargetTemperatureCall(p) ==
    /\ CanCall(p)
    /\ \E value \in TargetValues :
       LET call(stage) == [AccCall(p, "setTargetTemperature", stage) EXCEPT !.value = value]
       IN  IF CacheValid(clock)
           THEN /\ gets' = Append(gets, GetRecord(call("idle"), FALSE, cachedDevice))
                /\ \E mode \in ModesOf(cachedDevice) :
                      IF mode \in SettableModes
                      THEN /\ acc' = [acc EXCEPT ![p] = call("write")]
                           /\ accRet' = [accRet EXCEPT ![p] = NoAccResult]
                           /\ StartRequest(p, "PATCH")
                           /\ Carries(TargetSettings(snapshot[cachedDevice], mode, value))
                           /\ UNCHANGED <<tokens, codeVerifier, file, http, replaced>>
                      ELSE /\ acc' = [acc EXCEPT ![p] = call("idle")]
                           /\ accRet' = [accRet EXCEPT ![p] =
                                            AccThrow(<<"SERVICE_COMMUNICATION_FAILURE">>)]
                           /\ UNCHANGED <<lowerVars, deviceVars>>
           ELSE /\ acc' = [acc EXCEPT ![p] = call("read")]
                /\ accRet' = [accRet EXCEPT ![p] = NoAccResult]
                /\ StartRequest(p, "GET")
                /\ UNCHANGED <<gets, tokens, codeVerifier, file, http, replaced, deviceVars>>
    /\ opsStarted' = opsStarted + 1
    /\ WriteRead
    /\ UNCHANGED <<cachedDevice, cacheTimestamp, cachedReceived, writes, clock, platformVars>>

\* setTargetTemperature() resumes after the fetch of getDeviceData() (lines
\* 146-149, 157-163, 373-375): the device is stored; without device data, or
\* when the fetch failed, the handler throws.
SetTargetTemperatureResume(p) ==
    /\ acc[p].stage = "read" /\ AccPending(p)
    /\ IF apiRet[p].kind = "ok"
       THEN /\ StoreFetched(apiRet[p].body, acc[p].now)
            /\ gets' = Append(gets, GetRecord(acc[p], TRUE, apiRet[p].body))
            /\ IF apiRet[p].body = 0
               THEN /\ AccEnds(p, AccThrow(<<"SERVICE_COMMUNICATION_FAILURE">>))
                    /\ UNCHANGED deviceVars
               ELSE \E mode \in ModesOf(apiRet[p].body) :
                       SetTemperature(p, snapshot[apiRet[p].body], mode)
       ELSE /\ UNCHANGED <<cachedDevice, cacheTimestamp, cachedReceived, gets, deviceVars>>
            /\ AccEnds(p, AccThrow(<<"SERVICE_COMMUNICATION_FAILURE">>))
    /\ UNCHANGED <<writes, lastWrite, clock>>

\* A threshold handler that writes only the target it was called for.
ThresholdSettingsOneTarget(data, type, value) ==
    LET temp == ConvertFromCelsius(ClampTemperature(value, type), Units(data))
    IN  IF type = "heating" THEN Settings("", temp, 0)
        ELSE Settings("", 0, temp)

\* setHeatingThresholdTemperature(value) / setCoolingThresholdTemperature(
\* value), lines 449-462 and 514-527: the value is clamped and converted and
\* both targets are written, the other one as it was read.
ThresholdSettings(data, type, value) ==
    LET temp == ConvertFromCelsius(ClampTemperature(value, type), Units(data))
    IN  IF type = "heating" THEN Settings("", temp, data.cool)
        ELSE Settings("", data.heat, temp)

\* A threshold handler is called: getDeviceData() takes the device from the
\* cache, and the write is sent, or fetches it.
SetThresholdCall(p, method, type, value) ==
    LET call(stage) == [AccCall(p, method, stage) EXCEPT !.value = value]
    IN  /\ CanCall(p)
        /\ IF CacheValid(clock)
           THEN /\ gets' = Append(gets, GetRecord(call("idle"), FALSE, cachedDevice))
                /\ acc' = [acc EXCEPT ![p] = call("write")]
                /\ accRet' = [accRet EXCEPT ![p] = NoAccResult]
                /\ StartRequest(p, "PATCH")
                /\ Carries(ThresholdSettings(snapshot[cachedDevice], type, value))
                /\ UNCHANGED <<tokens, codeVerifier, file, http, replaced>>
           ELSE /\ acc' = [acc EXCEPT ![p] = call(type)]
                /\ accRet' = [accRet EXCEPT ![p] = NoAccResult]
                /\ StartRequest(p, "GET")
                /\ UNCHANGED <<gets, tokens, codeVerifier, file, http, replaced, deviceVars>>
        /\ opsStarted' = opsStarted + 1
        /\ WriteRead
        /\ UNCHANGED <<cachedDevice, cacheTimestamp, cachedReceived, writes, clock,
                       platformVars>>

\* A threshold handler resumes after the fetch of getDeviceData(): the
\* device is stored and the write is sent; without device data, or when the
\* fetch failed, the handler throws.
SetThresholdResume(p, type) ==
    /\ acc[p].stage = type /\ AccPending(p)
    /\ IF apiRet[p].kind = "ok"
       THEN /\ StoreFetched(apiRet[p].body, acc[p].now)
            /\ gets' = Append(gets, GetRecord(acc[p], TRUE, apiRet[p].body))
            /\ IF apiRet[p].body = 0
               THEN /\ AccEnds(p, AccThrow(<<"SERVICE_COMMUNICATION_FAILURE">>))
                    /\ UNCHANGED deviceVars
               ELSE /\ NextRequest(p, "write", "PATCH")
                    /\ Carries(ThresholdSettings(snapshot[apiRet[p].body], type, acc[p].value))
       ELSE /\ UNCHANGED <<cachedDevice, cacheTimestamp, cachedReceived, gets, deviceVars>>
            /\ AccEnds(p, AccThrow(<<"SERVICE_COMMUNICATION_FAILURE">>))
    /\ UNCHANGED <<writes, lastWrite, clock>>

\* setHeatingThresholdTemperature(value), lines 508-536
SetHeatingThresholdTemperatureCall(p) ==
    \E value \in HeatingValues :
        SetThresholdCall(p, "setHeatingThresholdTemperature", "heating", value)

SetHeatingThresholdTemperatureResume(p) == SetThresholdResume(p, "heating")

\* setCoolingThresholdTemperature(value), lines 443-471
SetCoolingThresholdTemperatureCall(p) ==
    \E value \in CoolingValues :
        SetThresholdCall(p, "setCoolingThresholdTemperature", "cooling", value)

SetCoolingThresholdTemperatureResume(p) == SetThresholdResume(p, "cooling")

\* The device after the resource API has applied `settings` to it.
Applied(data, settings) ==
    [data EXCEPT !.mode = IF settings.Mode # "" THEN settings.Mode ELSE @,
                 !.heat = IF settings.Heat # 0 THEN settings.Heat ELSE @,
                 !.cool = IF settings.Cool # 0 THEN settings.Cool ELSE @]

\* The resource API has handled the request of caller p.
Handled(p) == api[p].id \in RequestIds /\ snapshot[api[p].id] # NoData

\* The resource API handles the request of caller p: a PATCH changes the
\* fields it carries, and the body of the response is the device as it is
\* then.
ServerHandles(p) ==
    /\ api[p].stage = "http" /\ HttpInFlight(p) # {}
    /\ ~Handled(p)
    /\ server' = IF api[p].method = "PATCH"
                 THEN Applied(server, patches[api[p].id]) ELSE server
    /\ snapshot' = [snapshot EXCEPT ![api[p].id] = server']
    /\ UNCHANGED <<authVars, apiVars, clock, opsStarted, cachedDevice, cacheTimestamp,
                   acc, accRet, gets, writes, lastWrite, cachedReceived, platformVars,
                   patches>>

\* updateDeviceStatus() is called by the constructor or by the polling
\* timer (lines 589-600).  With a valid entry both getCachedDevice() calls
\* return it and updateCache() stores it again; otherwise the first call
\* fetches.
UpdateDeviceStatus(p) ==
    /\ CanCall(p)
    /\ opsStarted' = opsStarted + 1
    /\ IF CacheValid(clock)
       THEN /\ acc' = [acc EXCEPT ![p] = AccCall(p, "updateDeviceStatus", "idle")]
            /\ accRet' = [accRet EXCEPT ![p] = AccReturn(cachedDevice)]
            /\ gets' = gets \o
                  <<GetRecord(AccCall(p, "updateDeviceStatus", "idle"), FALSE, cachedDevice),
                    GetRecord(AccCall(p, "updateDeviceStatus", "idle"), FALSE, cachedDevice)>>
            /\ UpdateCache(cachedDevice)
            /\ UNCHANGED lowerVars
       ELSE /\ acc' = [acc EXCEPT ![p] = AccCall(p, "updateDeviceStatus", "poll")]
            /\ accRet' = [accRet EXCEPT ![p] = NoAccResult]
            /\ StartRequest(p, "GET")
            /\ UNCHANGED <<gets, cachedDevice, cacheTimestamp,
                           tokens, codeVerifier, file, http, replaced>>
    /\ WriteRead
    /\ UNCHANGED <<cachedReceived, writes, clock, deviceVars>>

\* updateDeviceStatus() is called while the timer stays as it is.
UpdateDeviceStatusCall(p) == UpdateDeviceStatus(p) /\ UNCHANGED platformVars

\* The accessory is constructed (lines 63-71): the initial
\* updateDeviceStatus() is called and startPolling() starts the timer with
\* the platform's polling interval.
AccessoryConstructor(p) ==
    /\ pollInterval = NoTimer
    /\ UpdateDeviceStatus(p)
    /\ pollInterval' = StartedTimer(pollingInterval, clock)
    /\ UNCHANGED <<config, pollingInterval, platform>>

\* The polling timer fires (lines 574-581): updateDeviceStatus() is called.
PollTimer(p) ==
    /\ pollInterval # NoTimer
    /\ clock >= pollInterval.next
    /\ UpdateDeviceStatus(p)
    /\ pollInterval' = Timer(pollInterval.interval, pollInterval.next + pollInterval.interval)
    /\ UNCHANGED <<config, pollingInterval, platform>>

\* destroy(), lines 721-727: the timer is cleared.  The plugin itself never
\* calls it; it is there for whoever holds the handler.
Destroy ==
    /\ pollInterval # NoTimer
    /\ pollInterval' = NoTimer
    /\ UNCHANGED <<lowerVars, opsStarted, clock, cachedDevice, cacheTimestamp, acc,
                   accRet, gets, writes, lastWrite, cachedReceived, config,
                   pollingInterval, platform, deviceVars>>

\* Time passes until the polling timer is due.
PollPeriod ==
    /\ pollInterval # NoTimer
    /\ clock < pollInterval.next
    /\ \E p \in Procs : CanStart(p)
    /\ clock' = pollInterval.next
    /\ UNCHANGED <<upper, replaced, tokens, codeVerifier, file, net,
                   pc, op, loc, ret, sent, touched, opsStarted>>

\* A poll whose fetch failed clears the polling timer.
UpdateDeviceStatusResumeStops(p) ==
    /\ acc[p].stage = "poll" /\ AccPending(p)
    /\ IF apiRet[p].kind # "ok"
       THEN /\ UNCHANGED <<cachedDevice, cacheTimestamp, cachedReceived, gets>>
            /\ acc' = [acc EXCEPT ![p].stage = "idle"]
            /\ accRet' = [accRet EXCEPT ![p] = AccReturn(0)]
            /\ opsStarted' = opsStarted
            /\ RequestTaken(p)
            /\ pollInterval' = NoTimer
            /\ UNCHANGED <<config, pollingInterval, platform>>
       ELSE LET device == apiRet[p].body
                first == GetRecord(acc[p], TRUE, device)
                second == GetRecord([acc[p] EXCEPT !.now = clock, !.saw = device],
                                    FALSE, device)
            IN /\ cachedReceived' = clock
               /\ IF device = 0
                  THEN /\ cachedDevice' = device
                       /\ cacheTimestamp' = acc[p].now
                       /\ gets' = Append(gets, first)
                       /\ AccEnds(p, AccReturn(0))
                  ELSE IF EntryValid(device, acc[p].now, clock)
                  THEN /\ UpdateCache(device)
                       /\ gets' = gets \o <<first, second>>
                       /\ AccEnds(p, AccReturn(device))
                  ELSE /\ cachedDevice' = device
                       /\ cacheTimestamp' = acc[p].now
                       /\ gets' = Append(gets, first)
                       /\ NextRequest(p, "poll2", "GET")
    /\ UNCHANGED <<writes, lastWrite, clock, deviceVars>>

\* updateDeviceStatus() resumes after the fetch of getDeviceData() (lines
\* 146-149, 157-163, 591-600): a failed fetch or a device without data ends
\* the update; otherwise getCachedDevice() is called again and, when the
\* entry just stored is still valid, updateCache() stores it with the
\* current time.  When the fetch took cacheTimeout or longer, the second
\* call fetches again.
UpdateDeviceStatusResume(p) ==
    /\ acc[p].stage = "poll" /\ AccPending(p)
    /\ IF apiRet[p].kind # "ok"
       THEN /\ UNCHANGED <<cachedDevice, cacheTimestamp, cachedReceived, gets>>
            /\ AccEnds(p, AccReturn(0))
       ELSE LET device == apiRet[p].body
                first == GetRecord(acc[p], TRUE, device)
                second == GetRecord([acc[p] EXCEPT !.now = clock, !.saw = device],
                                    FALSE, device)
            IN /\ cachedReceived' = clock
               /\ IF device = 0
                  THEN /\ cachedDevice' = device
                       /\ cacheTimestamp' = acc[p].now
                       /\ gets' = Append(gets, first)
                       /\ AccEnds(p, AccReturn(0))
                  ELSE IF EntryValid(device, acc[p].now, clock)
                  THEN /\ UpdateCache(device)
                       /\ gets' = gets \o <<first, second>>
                       /\ AccEnds(p, AccReturn(device))
                  ELSE /\ cachedDevice' = device
                       /\ cacheTimestamp' = acc[p].now
                       /\ gets' = Append(gets, first)
                       /\ NextRequest(p, "poll2", "GET")
    /\ UNCHANGED <<writes, lastWrite, clock, deviceVars>>

\* getCachedDevice() call (lines 146-149, 599-600, 712-715): the device is
\* stored and updateCache() stores it again with the current time; an error
\* is logged.
UpdateDeviceStatusResumeSecond(p) ==
    /\ acc[p].stage = "poll2" /\ AccPending(p)
    /\ IF apiRet[p].kind = "ok"
       THEN /\ UpdateCache(apiRet[p].body)
            /\ cachedReceived' = clock
            /\ gets' = Append(gets, GetRecord(acc[p], TRUE, apiRet[p].body))
            /\ AccEnds(p, AccReturn(apiRet[p].body))
       ELSE /\ UNCHANGED <<cachedDevice, cacheTimestamp, cachedReceived, gets>>
            /\ AccEnds(p, AccReturn(0))
    /\ UNCHANGED <<writes, lastWrite, clock, deviceVars>>

\* The lifetime of a cache entry passes, less one tick of the clock.
AgeEntry ==
    /\ (clock - StartMs) \div (CacheTimeout - TickMs) < MaxTicks
    /\ \E p \in Procs : CanStart(p)
    /\ clock' = clock + (CacheTimeout - TickMs)
    /\ UNCHANGED <<upper, replaced, tokens, codeVerifier, file, net,
                   pc, op, loc, ret, sent, touched, opsStarted>>

\* ------------------------------------------------------- discoverDevices
\* The state of the one accessory that is followed in detail, and of the
\* device it writes to: the steps of the platform leave it alone.
thermostatVars == <<cachedDevice, cacheTimestamp, acc, accRet, gets, writes,
                   lastWrite, cachedReceived, config, pollingInterval,
                   pollInterval, deviceVars>>

\* The device fetch of a handler, as the platform's record keeps it.
Fetch(pl, device) == [device |-> device, removed |-> Uuid(device) \in pl.unregistered]

\* configureAccessory(accessory), lines 793-801, called by Homebridge for a
\* cached accessory before didFinishLaunching: the accessory is kept in
\* this.accessories and a handler is constructed for it, whose constructor
\* calls updateDeviceStatus() (its cache is empty: the device is fetched)
\* and startPolling().
ConfigureAccessory(p, uuid) ==
    /\ platform.stage = "idle"
    /\ uuid \in platform.restoring
    /\ CanStart(p)
    /\ api[p].stage = "idle"
    /\ opsStarted' = opsStarted + 1
    /\ StartRequest(p, "GET")
    /\ platform' = [platform EXCEPT
                      !.restoring = @ \ {uuid},
                      !.accessories = @ \cup {uuid},
                      !.handlers = Append(@, Handler(DeviceOf(uuid))),
                      !.fetches = Append(@, Fetch(platform, DeviceOf(uuid)))]
    /\ UNCHANGED <<tokens, codeVerifier, file, clock, http, replaced, thermostatVars>>

\* discoverDevices(), lines 806-825, called on didFinishLaunching (line 781):
\* without email or password it returns; otherwise it awaits auth.login().
DiscoverDevices(p) ==
    /\ platform.stage = "idle"
    /\ platform.restoring = {}
    /\ IF platform.credentials
       THEN /\ api[p].stage = "idle"
            /\ Login(p)
            /\ platform' = [platform EXCEPT !.stage = "login", !.by = p]
       ELSE /\ platform' = [platform EXCEPT !.stage = "done", !.by = p]
            /\ UNCHANGED <<authVars, opsStarted, clock>>
    /\ UNCHANGED <<apiVars, thermostatVars>>

\* A method of the API client is called by discoverDevices(), which awaits
\* it; pl is the platform as the step leaves it.
DiscoverRequest(p, pl) ==
    /\ opsStarted' = opsStarted + 1
    /\ StartRequest(p, "GET")
    /\ platform' = [pl EXCEPT !.requests = @ + 1]
    /\ UNCHANGED <<tokens, codeVerifier, file, clock, http, replaced, thermostatVars>>

\* discoverDevices() ends without a request: it returned at line 812 or 825,
\* or the outer catch (lines 908-914) logged what was thrown.
DiscoverReturn(p, pl) ==
    /\ platform' = [pl EXCEPT !.stage = "done"]
    /\ api' = [api EXCEPT ![p] = NoRequest]
    /\ apiRet' = [apiRet EXCEPT ![p] = NoApiResult]

\* discoverDevices() is about to resume: what it awaited has settled.
DiscoverPending(p) ==
    /\ platform.by = p
    /\ pc[p] = "idle"
    /\ \/ platform.stage \in {"login", "loaded"}
       \/ platform.stage \in {"locations", "devices"} /\ api[p].stage = "idle"

\* login() returned (line 818): getLocations() is called (line 832).  It
\* threw (line 820): loadTokens() is called and suspends on fs.readFile.
DiscoverAfterLogin(p) ==
    /\ DiscoverPending(p)
    /\ platform.stage = "login"
    /\ IF ret[p].kind = "ok"
       THEN DiscoverRequest(p, [platform EXCEPT !.stage = "locations"])
       ELSE /\ Proc(p, "PlatformLoadWait", "loadTokens",
                    [NoLocals EXCEPT !.id = opsStarted + 1], NoResult, << >>, "none")
            /\ opsStarted' = opsStarted + 1
            /\ platform' = [platform EXCEPT !.stage = "load"]
            /\ UNCHANGED <<tokens, codeVerifier, file, clock, net, replaced,
                           apiVars, thermostatVars>>

\* loadTokens(), lines 316-319, called at line 822: the record read replaces
\* this.tokens and is returned.
DiscoverLoadDone(p) ==
    /\ platform.stage = "load" /\ platform.by = p
    /\ pc[p] = "PlatformLoadWait"
    /\ file.state = "ok"
    /\ tokens' = file.data
    /\ Finish(p, Success("loadTokens", file.data))
    /\ platform' = [platform EXCEPT !.stage = "loaded", !.fallback = "tokens"]
    /\ UNCHANGED <<codeVerifier, file, clock, net, replaced, opsStarted, apiVars,
                   thermostatVars>>

\* The tokens were loaded (line 827): getLocations() is called (line 832).
DiscoverAfterLoad(p) ==
    /\ DiscoverPending(p)
    /\ platform.stage = "loaded"
    /\ DiscoverRequest(p, [platform EXCEPT !.stage = "locations"])

\* The fallback continues although loadTokens() returned null.
DiscoverLoadMissingContinue(p) ==
    /\ platform.stage = "load" /\ platform.by = p
    /\ pc[p] = "PlatformLoadWait"
    /\ file.state = "absent"
    /\ Finish(p, Success("loadTokens", NullTokens))
    /\ platform' = [platform EXCEPT !.stage = "loaded", !.fallback = "null"]
    /\ UNCHANGED <<tokens, codeVerifier, file, clock, net, replaced, opsStarted,
                   apiVars, thermostatVars>>

\* loadTokens() returns null for a missing file (lines 321-323) and
\* discoverDevices() returns (lines 823-825).
DiscoverLoadMissing(p) ==
    /\ platform.stage = "load" /\ platform.by = p
    /\ pc[p] = "PlatformLoadWait"
    /\ file.state = "absent"
    /\ Finish(p, Success("loadTokens", NullTokens))
    /\ DiscoverReturn(p, [platform EXCEPT !.fallback = "null"])
    /\ UNCHANGED <<tokens, codeVerifier, file, clock, net, replaced, opsStarted,
                   http, thermostatVars>>

\* loadTokens() rethrows the SyntaxError of a truncated file (line 324) and
\* the outer catch of discoverDevices() logs it.
DiscoverLoadCorrupt(p) ==
    /\ platform.stage = "load" /\ platform.by = p
    /\ pc[p] = "PlatformLoadWait"
    /\ file.state = "truncated"
    /\ Finish(p, Failure("SyntaxError", "Unexpected end of JSON input"))
    /\ DiscoverReturn(p, [platform EXCEPT !.fallback = "threw"])
    /\ UNCHANGED <<tokens, codeVerifier, file, clock, net, replaced, opsStarted,
                   http, thermostatVars>>

\* The request discoverDevices() awaited gave a list: it returned a body.
\* A null body has no length: reading it throws a TypeError.
GaveList(p) == apiRet[p].kind = "ok" /\ apiRet[p].body # 0

\* The handlers constructed for the devices, in the order of the devices.
RECURSIVE HandlersFor(_)
HandlersFor(devices) ==
    IF devices = {} THEN << >>
    ELSE LET d == CHOOSE x \in devices : \A y \in devices : x <= y
         IN <<Handler(d)>> \o HandlersFor(devices \ {d})

\* The removal loop, lines 901-907: every accessory of this.accessories
\* whose uuid is not in discoveredCacheUUIDs is unregistered.
Removed(pl, discovered) == pl.accessories \ discovered

\* The loops of lines 857-907.  Every device collected gets a handler, whose
\* constructor fetches the device and starts a timer, and its uuid is pushed
\* into discoveredCacheUUIDs; an accessory is created and registered for a
\* uuid this.accessories does not hold (it is not added to this.accessories).
\* Then the removal loop runs.
Register(pl) ==
    LET uuids == {Uuid(d) : d \in pl.allDevices}
        discovered == pl.discoveredCacheUUIDs \cup uuids
        created == HandlersFor(pl.allDevices)
    IN [pl EXCEPT !.handlers = @ \o created,
                  !.fetches = @ \o [i \in 1..Len(created) |-> Fetch(pl, created[i].device)],
                  !.discoveredCacheUUIDs = discovered,
                  !.registered = (@ \cup (uuids \ pl.accessories)) \ Removed(pl, discovered),
                  !.unregistered = @ \cup Removed(pl, discovered)]

\* The per-location loop, lines 839-851, from the location at the head of
\* pl.remaining on: its devices are requested; after the last location the
\* loops of lines 857-907 run, and discoverDevices() ends while the
\* constructor of a new handler has its fetch under way.
DiscoverLoop(p, pl) ==
    IF pl.remaining # << >>
    THEN DiscoverRequest(p, [pl EXCEPT !.stage = "devices"])
    ELSE IF pl.allDevices # {}
         THEN /\ opsStarted' = opsStarted + 1
              /\ StartRequest(p, "GET")
              /\ platform' = [Register(pl) EXCEPT !.stage = "done"]
              /\ UNCHANGED <<tokens, codeVerifier, file, clock, http, replaced,
                             thermostatVars>>
         ELSE /\ DiscoverReturn(p, Register(pl))
              /\ UNCHANGED <<authVars, http, opsStarted, clock, thermostatVars>>

\* getLocations() returned or threw (lines 832-833): with a list the
\* per-location loop starts; what it threw, the outer catch logs.
DiscoverLocationsDone(p) ==
    /\ DiscoverPending(p)
    /\ platform.stage = "locations"
    /\ IF GaveList(p)
       THEN DiscoverLoop(p, [platform EXCEPT !.remaining = AccountLocations])
       ELSE /\ DiscoverReturn(p, platform)
            /\ UNCHANGED <<authVars, http, opsStarted, clock, thermostatVars>>

\* getLocationDevices() returned or threw (lines 841-850): the devices of
\* the location are collected, or the failure is logged as a warning, and
\* the loop goes on.
DiscoverDevicesDone(p) ==
    /\ DiscoverPending(p)
    /\ platform.stage = "devices"
    /\ LET location == Head(platform.remaining)
       IN DiscoverLoop(p, IF GaveList(p)
                          THEN [platform EXCEPT
                                  !.allDevices = @ \cup platform.cloud[location],
                                  !.remaining = Tail(@)]
                          ELSE [platform EXCEPT
                                  !.failed = @ \cup {location},
                                  !.remaining = Tail(@)])

\* The timer of handler h fires (lines 574-581) and updateDeviceStatus()
\* fetches the device; how much time has passed is not followed.
HandlerPoll(p, h) ==
    /\ h \in DOMAIN platform.handlers
    /\ platform.handlers[h].polling
    /\ platform.ticks < MaxPolls
    /\ pc[p] = "idle" /\ api[p].stage = "idle"
    /\ platform.by = p => platform.stage = "done"
    /\ opsStarted' = opsStarted + 1
    /\ StartRequest(p, "GET")
    /\ platform' = [platform EXCEPT
                      !.ticks = @ + 1,
                      !.fetches = Append(@, Fetch(platform, platform.handlers[h].device))]
    /\ UNCHANGED <<tokens, codeVerifier, file, clock, http, replaced, thermostatVars>>

\* No continuation is waiting to run.
Quiet == \A q \in Procs : ~InterceptorPending(q) /\ ~AccPending(q)

\* The callers of the API client: every request() starts with a
\* getValidToken(), whose steps are those of the token lifecycle.
NextApi ==
    \/ \E p \in Procs : InterceptorDone(p)
    \/ Quiet /\ Tick
    \/ \E p \in Procs :
        \/ Quiet /\ RequestCall(p)
        \/ Quiet /\ LoadTokensDone(p)
        \/ Quiet /\ LoadTokensMissing(p)
        \/ Quiet /\ LoadTokensCorrupt(p)
        \/ Quiet /\ RefreshResponseOk(p)
        \/ Quiet /\ RefreshResponseError(p)
        \/ Quiet /\ SaveOpen(p)
        \/ Quiet /\ SaveOpenError(p)
        \/ Quiet /\ SaveWrite(p)
        \/ Quiet /\ SaveWriteError(p)
        \/ Quiet /\ HttpResponse(p)
        \/ Quiet /\ HttpErrorResponse(p)
        \/ Quiet /\ HttpNoResponse(p)

SpecApi == Init /\ [][NextApi]_vars

\* The callers of the accessory: HomeKit set handlers and readers of the
\* device cache.
NextCache ==
    \/ \E p \in Procs : InterceptorDone(p)
    \/ \E p \in Procs : GetCachedDeviceResume(p)
    \/ \E p \in Procs : SetModeResume(p)
    \/ Quiet /\ Tick
    \/ Quiet /\ AgeEntry
    \/ \E p \in Procs :
        \/ Quiet /\ GetCachedDeviceCall(p)
        \/ Quiet /\ SetModeCall(p)
        \/ Quiet /\ LoadTokensDone(p)
        \/ Quiet /\ LoadTokensMissing(p)
        \/ Quiet /\ LoadTokensCorrupt(p)
        \/ Quiet /\ RefreshResponseOk(p)
        \/ Quiet /\ RefreshResponseError(p)
        \/ Quiet /\ SaveOpen(p)
        \/ Quiet /\ SaveOpenError(p)
        \/ Quiet /\ SaveWrite(p)
        \/ Quiet /\ SaveWriteError(p)
        \/ Quiet /\ HttpResponse(p)
        \/ Quiet /\ HttpErrorResponse(p)
        \/ Quiet /\ HttpNoResponse(p)

SpecCache == Init /\ [][NextCache]_vars

\* The accessory as the plugin runs it: a HomeKit set handler that reads the
\* device before it writes, and the updateDeviceStatus() of the constructor
\* and of the polling timer.
NextAcc ==
    \/ \E p \in Procs : InterceptorDone(p)
    \/ \E p \in Procs : SetModeResume(p)
    \/ \E p \in Procs : SetTargetTemperatureResume(p)
    \/ \E p \in Procs : UpdateDeviceStatusResume(p)
    \/ \E p \in Procs : UpdateDeviceStatusResumeSecond(p)
    \/ Quiet /\ Tick
    \/ Quiet /\ AgeEntry
    \/ \E p \in Procs :
        \/ Quiet /\ SetTargetTemperatureCall(p)
        \/ Quiet /\ UpdateDeviceStatusCall(p)
        \/ Quiet /\ LoadTokensDone(p)
        \/ Quiet /\ LoadTokensMissing(p)
        \/ Quiet /\ LoadTokensCorrupt(p)
        \/ Quiet /\ RefreshResponseOk(p)
        \/ Quiet /\ RefreshResponseError(p)
        \/ Quiet /\ SaveOpen(p)
        \/ Quiet /\ SaveOpenError(p)
        \/ Quiet /\ SaveWrite(p)
        \/ Quiet /\ SaveWriteError(p)
        \/ Quiet /\ HttpResponse(p)
        \/ Quiet /\ HttpErrorResponse(p)
        \/ Quiet /\ HttpNoResponse(p)

SpecAcc == Init /\ [][NextAcc]_vars

\* The platform from its construction on: the accessory is constructed and
\* polls the device with the period of its timer.
NextPlatform ==
    \/ \E p \in Procs : InterceptorDone(p)
    \/ \E p \in Procs : UpdateDeviceStatusResume(p)
    \/ \E p \in Procs : UpdateDeviceStatusResumeSecond(p)
    \/ Quiet /\ Tick
    \/ Quiet /\ PollPeriod
    \/ \E p \in Procs :
        \/ Quiet /\ AccessoryConstructor(p)
        \/ Quiet /\ PollTimer(p)
        \/ Quiet /\ LoadTokensDone(p)
        \/ Quiet /\ LoadTokensMissing(p)
        \/ Quiet /\ LoadTokensCorrupt(p)
        \/ Quiet /\ RefreshResponseOk(p)
        \/ Quiet /\ RefreshResponseError(p)
        \/ Quiet /\ SaveOpen(p)
        \/ Quiet /\ SaveOpenError(p)
        \/ Quiet /\ SaveWrite(p)
        \/ Quiet /\ SaveWriteError(p)
        \/ Quiet /\ HttpResponse(p)
        \/ Quiet /\ HttpErrorResponse(p)
        \/ Quiet /\ HttpNoResponse(p)

SpecPlatform == InitPlatform /\ [][NextPlatform]_vars

\* The set handlers of the accessory of a logged-in plugin, and the device
\* they write to.
NextSet ==
    \/ \E p \in Procs : InterceptorDone(p)
    \/ \E p \in Procs : SetModeResume(p)
    \/ \E p \in Procs : SetTargetTemperatureResume(p)
    \/ \E p \in Procs : SetHeatingThresholdTemperatureResume(p)
    \/ \E p \in Procs : SetCoolingThresholdTemperatureResume(p)
    \/ Quiet /\ Tick
    \/ \E p \in Procs :
        \/ Quiet /\ SetModeCall(p)
        \/ Quiet /\ SetTargetTemperatureCall(p)
        \/ Quiet /\ SetHeatingThresholdTemperatureCall(p)
        \/ Quiet /\ SetCoolingThresholdTemperatureCall(p)
        \/ Quiet /\ ServerHandles(p)
        \/ Quiet /\ Handled(p) /\ HttpResponse(p)
        \/ Quiet /\ ~Handled(p) /\ HttpErrorResponse(p)
        \/ Quiet /\ HttpNoResponse(p)

SpecSet == InitSet /\ [][NextSet]_vars

\* The accessory polls the device with its timer until destroy() is called.
NextPoll ==
    \/ \E p \in Procs : InterceptorDone(p)
    \/ \E p \in Procs : UpdateDeviceStatusResume(p)
    \/ \E p \in Procs : UpdateDeviceStatusResumeSecond(p)
    \/ Quiet /\ Tick
    \/ Quiet /\ PollPeriod
    \/ Quiet /\ Destroy
    \/ \E p \in Procs :
        \/ Quiet /\ PollTimer(p)
        \/ Quiet /\ LoadTokensDone(p)
        \/ Quiet /\ LoadTokensMissing(p)
        \/ Quiet /\ LoadTokensCorrupt(p)
        \/ Quiet /\ RefreshResponseOk(p)
        \/ Quiet /\ RefreshResponseError(p)
        \/ Quiet /\ SaveOpen(p)
        \/ Quiet /\ SaveOpenError(p)
        \/ Quiet /\ SaveWrite(p)
        \/ Quiet /\ SaveWriteError(p)
        \/ Quiet /\ HttpResponse(p)
        \/ Quiet /\ HttpErrorResponse(p)
        \/ Quiet /\ HttpNoResponse(p)

SpecPoll == Init /\ [][NextPoll]_vars

\* Homebridge restores the cached accessories and the platform discovers
\* the devices of the account while the handlers poll.
QuietPlatform == Quiet /\ \A q \in Procs : ~DiscoverPending(q)

NextDiscover ==
    \/ \E p \in Procs : InterceptorDone(p)
    \/ \E p \in Procs : DiscoverAfterLogin(p)
    \/ \E p \in Procs : DiscoverAfterLoad(p)
    \/ \E p \in Procs : DiscoverLocationsDone(p)
    \/ \E p \in Procs : DiscoverDevicesDone(p)
    \/ \E p \in Procs :
        \/ QuietPlatform /\ \E uuid \in platform.restoring : ConfigureAccessory(p, uuid)
        \/ QuietPlatform /\ DiscoverDevices(p)
        \/ QuietPlatform /\ \E h \in DOMAIN platform.handlers : HandlerPoll(p, h)
        \/ QuietPlatform /\ DiscoverLoadDone(p)
        \/ QuietPlatform /\ DiscoverLoadMissing(p)
        \/ QuietPlatform /\ DiscoverLoadCorrupt(p)
        \/ QuietPlatform /\ LoadTokensDone(p)
        \/ QuietPlatform /\ LoadTokensMissing(p)
        \/ QuietPlatform /\ RefreshResponseOk(p)
        \/ QuietPlatform /\ RefreshResponseError(p)
        \/ QuietPlatform /\ SaveOpen(p)
        \/ QuietPlatform /\ SaveWrite(p)
        \/ QuietPlatform /\ AuthorizePage(p)
        \/ QuietPlatform /\ LoginRequestError(p)
        \/ QuietPlatform /\ SubmitAnswered(p)
        \/ QuietPlatform /\ ConfirmAnswered(p)
        \/ QuietPlatform /\ TokenResponseOk(p)
        \/ QuietPlatform /\ HttpResponse(p)
        \/ QuietPlatform /\ HttpErrorResponse(p)
        \/ QuietPlatform /\ HttpNoResponse(p)

SpecDiscover == InitDiscover /\ [][NextDiscover]_vars

Next ==
    \/ Tick
    \/ \E p \in Procs :
        \/ GetValidTokenCall(p)
        \/ RefreshTokenCall(p)
        \/ LoadTokensDone(p)
        \/ LoadTokensMissing(p)
        \/ LoadTokensCorrupt(p)
        \/ RefreshResponseOk(p)
        \/ RefreshResponseError(p)
        \/ SaveOpen(p)
        \/ SaveOpenError(p)
        \/ SaveWrite(p)
        \/ SaveWriteError(p)
        \/ LoginCall(p)
        \/ AuthorizePage(p)
        \/ AuthorizePageUnparsable(p)
        \/ LoginRequestError(p)
        \/ SubmitAnswered(p)
        \/ ConfirmAnswered(p)
        \/ TokenResponseOk(p)

Spec == Init /\ [][Next]_vars

\* What login() of caller p awaits settles: the provider answers the
\* request in flight or the request fails, or the file system completes a
\* step of saveTokens().
LoginProgress(p) ==
    /\ op[p] = "login"
    /\ \/ AuthorizePage(p)
       \/ AuthorizePageUnparsable(p)
       \/ LoginRequestError(p)
       \/ SubmitAnswered(p)
       \/ ConfirmAnswered(p)
       \/ TokenResponseOk(p)
       \/ SaveOpen(p)
       \/ SaveOpenError(p)
       \/ SaveWrite(p)
       \/ SaveWriteError(p)

\* The auth object when every request of a login is answered at some time.
SpecLoginFair == Init /\ [][Next]_vars /\ \A p \in Procs : WF_vars(LoginProgress(p))

\* ---------------------------------------------------------------- claims
\* Caller p took the step: some part of its own state changed.
Acted(p) ==
    <<pc[p], op[p], loc[p], ret[p], sent[p], touched[p]>>' #
        <<pc[p], op[p], loc[p], ret[p], sent[p], touched[p]>>

\* The refresh grants in flight that getValidToken() calls have posted.
RefreshesInFlight == {m \in net : m.kind = "token_refresh" /\ op[m.from] = "getValidToken"}

\* C1: getValidToken() calls that overlap and all see an expired token have
\* at most one refresh grant in flight between them.
C1_OneRefreshInFlight == Cardinality(RefreshesInFlight) <= 1

RefreshReturns(p) ==
    /\ pc[p] = "SaveWrite"
    /\ op[p] \in {"getValidToken", "refreshToken"}
    /\ pc'[p] = "idle"
    /\ ret'[p].kind = "ok"

\* The refresh token the refresh of caller p has to leave stored: the one
\* of its response, or without one the token held when the grant was posted.
RotatedRefreshToken(p) ==
    IF loc[p].tokenResponse.refresh_token # 0
    THEN loc[p].tokenResponse.refresh_token
    ELSE loc[p].tokens.refresh_token

\* C3: when a refresh returns successfully, the refresh token of the durable
\* record and of the in-memory tokens is the one of the response, or, if the
\* response carried none, the one held before the refresh.
C3_RotationAtReturn ==
    [][\A p \in Procs :
        RefreshReturns(p)
        => /\ file'.state = "ok"
           /\ file'.data.refresh_token = RotatedRefreshToken(p)
           /\ tokens'.refresh_token = RotatedRefreshToken(p)]_vars

\* The refresh grant of caller p ends in this step without a token response.
RefreshFails(p) ==
    /\ pc[p] = "RefreshWait"
    /\ pc'[p] \notin {"RefreshWait", "SaveOpen"}

\* The failure of the refresh grant surfaces as RefreshFailure: no access
\* token is returned, no request of a login flow is sent, and the step
\* changes neither the in-memory tokens nor the durable record.
SurfacesRefreshFailure(p) ==
    /\ pc'[p] = "idle"
    /\ ret'[p] = Failure("RefreshFailure", ret'[p].message)
    /\ net' = net \ InFlight(p, "token_refresh")
    /\ sent'[p] = <<"token_refresh">>
    /\ tokens' = tokens
    /\ file' = file

\* C4 as stated: a call that fails with RefreshFailure has written neither
\* the in-memory tokens nor the durable record since it was made.
C4_FailedRefreshWroteNothing ==
    \A p \in Procs : ret[p].kind = "RefreshFailure" => touched[p] = "none"

\* C4 amended: when the refresh grant fails the call fails with
\* RefreshFailure, returns no access token, starts no login, and has not
\* written the durable record; the only write of the in-memory tokens it can
\* have made is the load of the durable record it started with.
C4_RefreshFailureSurfaces ==
    [][\A p \in Procs :
        RefreshFails(p) => SurfacesRefreshFailure(p) /\ touched'[p] \in {"none", "load"}]_vars

\* C4 witness: a getValidToken() that loaded the record and then failed.
C4_Witness ==
    \E p \in Procs :
        /\ op[p] = "getValidToken"
        /\ ret[p].kind = "RefreshFailure"
        /\ touched[p] = "load"
        /\ tokens # NullTokens

\* C5: a getValidToken() that finds no in-memory tokens and then no durable
\* record fails with NotAuthenticated, has sent nothing to the provider and
\* leaves the in-memory tokens and the durable record as they are.
C5_NotAuthenticated ==
    [][\A p \in Procs :
        (pc[p] = "LoadWait" /\ op[p] = "getValidToken" /\ file.state = "absent" /\ Acted(p))
        => /\ pc'[p] = "idle"
           /\ ret'[p].kind = "NotAuthenticated"
           /\ ret'[p].access_token = 0
           /\ sent'[p] = << >>
           /\ net' = net
           /\ {m \in net : m.from = p} = {}
           /\ tokens' = tokens
           /\ file' = file]_vars

\* C5 witness: NotAuthenticated with the token state still empty.
C5_Witness ==
    \E p \in Procs :
        /\ op[p] = "getValidToken"
        /\ ret[p].kind = "NotAuthenticated"
        /\ tokens = NullTokens
        /\ file = FileAbsent

\* The provider requests of one login attempt, in order.
LoginStages == <<"authorize", "selfasserted", "confirmed", "token_code">>

\* C6: the requests of a login attempt are a prefix of authorize,
\* SelfAsserted, confirmed, token; at most one of them is in flight, and it
\* is the last one sent.
C6_StagesInOrder ==
    \A p \in Procs :
        op[p] = "login"
        => /\ Len(sent[p]) \in 1..4
           /\ sent[p] = SubSeq(LoginStages, 1, Len(sent[p]))
           /\ Cardinality({m \in net : m.from = p}) <= 1
           /\ \A m \in net : m.from = p => m.kind = sent[p][Len(sent[p])]
           /\ (pc[p] \in {"AuthorizeWait", "SubmitWait", "ConfirmWait", "TokenWait"}
                 <=> \E m \in net : m.from = p)

\* C6 witness: the last stage's request is in flight.
C6_Witness ==
    \E p \in Procs :
        /\ op[p] = "login"
        /\ sent[p] = LoginStages
        /\ \E m \in net : m.from = p /\ m.kind = "token_code"

\* The stage a login attempt is waiting in.
StageOf(c) ==
    CASE c = "AuthorizeWait" -> 1
      [] c = "SubmitWait" -> 2
      [] c = "ConfirmWait" -> 3
      [] c = "TokenWait" -> 4
      [] OTHER -> 0

\* The login of caller p ends in this step in one of its four stages.
LoginStageFails(p) ==
    /\ op[p] = "login"
    /\ StageOf(pc[p]) # 0
    /\ pc'[p] = "idle"

\* C7: a login that ends in one of its stages fails; it has sent the
\* requests up to that stage once each and no later one, none is in flight,
\* and the in-memory tokens and the durable record are not written.
C7_StageFailureAborts ==
    [][\A p \in Procs :
        LoginStageFails(p)
        => /\ ret'[p].kind \in {"PageFetchFailure", "PageParseFailure", "SubmitFailure",
                                "InvalidCredentials", "RedirectFailure",
                                "TokenExchangeFailure"}
           /\ ret'[p].tokens = NullTokens
           /\ sent'[p] = SubSeq(LoginStages, 1, StageOf(pc[p]))
           /\ {m \in net' : m.from = p} = {}
           /\ touched'[p] = "none"
           /\ tokens' = tokens
           /\ file' = file]_vars

\* C7 witness: a login rejected at the credential stage, tokens untouched.
C7_Witness ==
    \E p \in Procs :
        /\ op[p] = "login"
        /\ ret[p].kind = "InvalidCredentials"
        /\ sent[p] = <<"authorize", "selfasserted">>
        /\ tokens = NullTokens

\* The token endpoint's answer to the login of caller p is taken in this step.
LoginAnswered(p) ==
    /\ op[p] = "login"
    /\ pc[p] = "TokenWait"
    /\ pc'[p] = "SaveOpen"

\* The login of caller p returns successfully in this step.
LoginReturns(p) ==
    /\ op[p] = "login"
    /\ pc[p] = "SaveWrite"
    /\ pc'[p] = "idle"
    /\ ret'[p].kind = "ok"

\* C8: a login builds its tokens from the token response (expires_at is
\* expires_on, refresh_token_expires_at is now + refresh_token_expires_in),
\* returns them, and when it returns the in-memory tokens and the durable
\* record both equal the returned value.
C8_LoginResult ==
    [][\A p \in Procs :
        /\ LoginAnswered(p)
           => LET resp == loc'[p].tokenResponse IN
              loc'[p].newTokens =
                  [access_token |-> resp.access_token,
                   refresh_token |-> resp.refresh_token,
                   expires_at |-> resp.expires_on,
                   refresh_token_expires_at |-> NowSec + resp.refresh_token_expires_in]
        /\ LoginReturns(p)
           => /\ ret'[p].tokens = loc[p].newTokens
              /\ tokens' = ret'[p].tokens
              /\ file' = FileWith(ret'[p].tokens)]_vars

\* C9: a delivered SelfAsserted answer lets the login go on exactly when
\* its body's status is the string "200"; any other answer, whatever the
\* HTTP status, fails the login with the provider's message.
C9_StatusString200 ==
    [][\A p \in Procs :
        (pc[p] = "SubmitWait" /\ loc'[p].submitBody # NoSubmitBody)
        => LET body == loc'[p].submitBody IN
           IF body.statusType = "string" /\ body.status = 200
           THEN /\ pc'[p] = "ConfirmWait"
                /\ InFlight(p, "confirmed")' # {}
           ELSE /\ pc'[p] = "idle"
                /\ ret'[p].kind = "InvalidCredentials"
                /\ ret'[p].message =
                       (IF body.message # "" THEN body.message ELSE "Unknown error")
                /\ {m \in net' : m.from = p} = {}]_vars

\* C9 witness: HTTP 200 with a body status other than "200", refused with
\* the provider's message.
C9_Witness ==
    \E p \in Procs :
        /\ ret[p].kind = "InvalidCredentials"
        /\ loc[p].submitBody.httpStatus = 200
        /\ ret[p].message = "Your password is incorrect"

\* C10: the code_verifier of a login attempt's token request is the verifier
\* generated in that attempt, whose challenge its authorize request carried.
C10_OwnVerifier ==
    \A m \in net :
        m.kind = "token_code" => m.code_verifier = loc[m.from].verifier

\* A login attempt is running.
LoginRunning == \E p \in Procs : op[p] = "login" /\ pc[p] # "idle"

\* C11: when no login attempt is running, the auth object holds no PKCE
\* verifier (and the durable record, a StoredTokens, has no place for one).
C11_VerifierDiscarded == ~LoginRunning => codeVerifier = 0

\* The pieces of s between its semicolons.
RECURSIVE SplitSemi(_)
SplitSemi(s) ==
    IF s = << >> THEN << >>
    ELSE IF IndexOf(s, ";") = 0 THEN <<s>>
    ELSE <<SubSeq(s, 1, IndexOf(s, ";") - 1)>> \o SplitSemi(SubSeq(s, IndexOf(s, ";") + 1, Len(s)))

\* The <<name, value>> pairs a server reads from a Cookie request header.
CookiePairs(header) ==
    {<<SubSeq(Trim(SplitSemi(header)[i]), 1, IndexOf(Trim(SplitSemi(header)[i]), "=") - 1),
       SubSeq(Trim(SplitSemi(header)[i]), IndexOf(Trim(SplitSemi(header)[i]), "=") + 1,
              Len(Trim(SplitSemi(header)[i])))>> : i \in 1..Len(SplitSemi(header))}

\* The <<name, value>> pairs of a cookie jar.
JarPairs(jar) == {jar[i] : i \in 1..Len(jar)}

\* C12: the Cookie header of the confirmed GET holds every cookie captured
\* from the SelfAsserted answer and every cookie captured from the login page
\* whose name the SelfAsserted answer did not set again, and nothing else.
C12_CookieJarMerged ==
    \A m \in net :
        m.kind = "confirmed"
        => LET first == JarPairs(loc[m.from].cookies)
               second == JarPairs(ParseCookies(loc[m.from].setCookie))
           IN CookiePairs(m.cookie) =
                  second \cup {x \in first : \A y \in second : y[1] # x[1]}

\* C12 witness: a confirmed GET carrying a cookie set in both steps with
\* its later value, one only set by the login page and one only set by the
\* SelfAsserted answer.
C12_Witness ==
    \E m \in net :
        /\ m.kind = "confirmed"
        /\ <<<<"a">>, <<"1">>>> \in JarPairs(loc[m.from].cookies)
        /\ CookiePairs(m.cookie) = {<<<<"a">>, <<"9">>>>, <<<<"b">>, <<"2">>>>, <<<<"c">>, <<"3">>>>}

\* The statuses the executor is to retry, and those it is not to retry.
RetryableStatus == {"503", "none"}
NonRetryableStatus == {"400", "404"}

\* C13: a call whose attempt failed with a retryable status or without a
\* response is sent again while retries remain: no such failure reaches the
\* caller before the first attempt and two retries were made.
C13_RetryableFailureIsRetried ==
    \A p \in Procs :
        (apiRet[p].kind = "error" /\ api[p].received.status \in RetryableStatus)
        => api[p].attempts = 3

\* The request() call of caller p gets an answer in this step.
Answered(p) == api[p].stage = "http" /\ api'[p].received # api[p].received

\* C14: an answer with a non-retryable status ends the call in the same
\* step: one attempt was made, none is in flight, and request() throws.
C14_NoRetryOnNonRetryable ==
    [][\A p \in Procs :
        (Answered(p) /\ api'[p].received.status \in NonRetryableStatus)
        => /\ api'[p].stage = "idle"
           /\ api'[p].attempts = 1
           /\ HttpInFlight(p)' = {}
           /\ apiRet'[p].kind = "error"
           /\ apiRet'[p].message # << >>]_vars

\* C14 witness: a call refused with 404 after its only attempt.
C14_Witness ==
    \E p \in Procs :
        /\ api[p].received.status = "404"
        /\ api[p].attempts = 1
        /\ apiRet[p].kind = "error"

\* The class of a thrown error, told by the form of its message.
ClassOf(message) ==
    CASE message[1] = "Network error: " -> "NetworkError"
      [] message[1] = "HTTP " -> "HttpError"
      [] OTHER -> "ApiError"

C16_NoEmptyBody == \A p \in Procs : apiRet[p].kind = "ok" => apiRet[p].body # 0

\* C17: request() returns a body only for an envelope with errorNumber 0;
\* a 2xx answer whose envelope has another errorNumber fails, with the
\* provider's errorMessage when it has one.
C17_BodyOnlyWithoutError ==
    [][\A p \in Procs :
        Answered(p)
        => LET got == api'[p].received IN
           /\ apiRet'[p].kind = "ok"
              => /\ got.status = "200" /\ got.data.isEnvelope /\ got.data.errorNumber = 0
                 /\ apiRet'[p].body = got.data.body
           /\ (got.status = "200" /\ got.data.isEnvelope /\ got.data.errorNumber # 0)
              => /\ apiRet'[p].kind = "error"
                 /\ got.data.errorMessage # "" => apiRet'[p].message = <<got.data.errorMessage>>]_vars

\* C17 witness: a 2xx answer with an error envelope, failed with its message.
C17_Witness ==
    \E p \in Procs :
        /\ api[p].received.status = "200"
        /\ api[p].received.data.errorNumber = 5
        /\ apiRet[p] = ApiThrow(<<"Device offline">>)

\* C18: a request() call starts with a getValidToken() call of its own; its
\* HTTP request is sent when that call has returned, carrying the access
\* token it returned, and when that call fails nothing is sent and request()
\* throws.
C18_FreshToken ==
    [][\A p \in Procs :
        /\ (api[p].stage # "token" /\ api'[p].stage = "token")
           => /\ opsStarted' = opsStarted + 1
              /\ op'[p] = "getValidToken"
              /\ ret'[p].kind \in {"none", "ok"}
              /\ ret'[p].kind = "ok" => ret'[p].access_token = tokens'.access_token
        /\ HttpInFlight(p)' \ HttpInFlight(p) # {}
           => /\ api[p].stage = "token" /\ pc[p] = "idle" /\ op[p] = "getValidToken"
              /\ ret[p].kind = "ok"
              /\ \A m \in HttpInFlight(p)' \ HttpInFlight(p) : m.bearer = ret[p].access_token
        /\ (api[p].stage = "token" /\ api'[p].stage # "token" /\ ret[p].kind # "ok")
           => /\ http' = http
              /\ api'[p].stage = "idle"
              /\ apiRet'[p].kind = "error"]_vars

\* C18 witness: the second request of a caller carries the token of its own
\* getValidToken() call, which refreshed the token its first request used.
C18_Witness ==
    \E m \in http :
        /\ m.bearer = ret[m.from].access_token
        /\ m.bearer = 3
        /\ opsStarted = 2
        /\ \A q \in Procs \ {m.from} : op[q] = "none"

\* C19: a getCachedDevice() call made less than cacheTimeout after a call
\* that fetched a device, with no write-through between the two calls,
\* fetches nothing and returns the device the earlier call returned.
C19_OneFetchInWindow ==
    \A i, j \in DOMAIN gets :
        (/\ gets[i].fetched /\ gets[i].device # 0
         /\ gets[i].id < gets[j].id
         /\ gets[j].at - gets[i].at < CacheTimeout
         /\ gets[i].writes = gets[j].writes)
        => ~gets[j].fetched /\ gets[j].device = gets[i].device

\* A getCachedDevice() call is made by caller p in this step.
GetCalled(p) == acc'[p].id # acc[p].id /\ acc'[p].method = "getCachedDevice"

\* A getCachedDevice() call of caller p that fetched returns in this step.
FetchReturns(p) == acc[p].stage = "fetch" /\ acc'[p].stage = "idle" /\ accRet'[p].kind = "ok"

\* C20: a getCachedDevice() call that finds an entry of age cacheTimeout or
\* more starts one fetch; when the fetch succeeds the call has made one
\* request, stores its answer's device with the time of the call, which is
\* later than the expired entry's, and returns that device, not the expired
\* one.
C20_FetchAfterExpiry ==
    [][\A p \in Procs :
        /\ (GetCalled(p) /\ cachedDevice # 0 /\ clock - cacheTimestamp >= CacheTimeout)
           => /\ acc'[p].stage = "fetch"
              /\ accRet'[p].kind = "none"
              /\ api'[p].stage = "token" /\ api'[p].method = "GET"
              /\ acc'[p].now = clock /\ acc'[p].now > cacheTimestamp
              /\ acc'[p].saw = cachedDevice
              /\ gets' = gets
        /\ FetchReturns(p)
           => /\ api[p].attempts = 1
              /\ api[p].received.status = "200"
              /\ accRet'[p].device = api[p].received.data.body
              /\ accRet'[p].device # acc[p].saw \/ acc[p].saw = 0
              /\ cachedDevice' = accRet'[p].device
              /\ cacheTimestamp' = acc[p].now]_vars

\* C20 witness: a call that found the entry exactly cacheTimeout old has
\* fetched and stored a new device.
C20_Witness ==
    \E j \in DOMAIN gets :
        /\ gets[j].fetched
        /\ gets[j].saw # 0
        /\ gets[j].device \notin {0, gets[j].saw}
        /\ cachedDevice = gets[j].device
        /\ cacheTimestamp = gets[j].at
        /\ \E i \in DOMAIN gets : gets[i].device = gets[j].saw
                                   /\ gets[j].at = gets[i].at + CacheTimeout

\* A write of the durable record is in progress.
WriteInProgress == \E q \in Procs : pc[q] \in {"SaveOpen", "SaveWrite"}

\* C22: a read of the durable record that completes while a write of it is
\* in progress finds the whole previous record or the whole new one, never
\* an empty or partly written file.
C22_ReaderSeesWholeRecord ==
    [][\A p \in Procs :
        (pc[p] = "LoadWait" /\ Acted(p) /\ WriteInProgress)
        => /\ file.state # "truncated"
           /\ ret'[p].kind # "LoadError"]_vars

\* C28: whenever no write of the durable record is in progress, in-memory
\* tokens that are present equal the durable record.
C28_MemoryMatchesRecord ==
    (~WriteInProgress /\ tokens # NullTokens) => file = FileWith(tokens)

\* The token response of the refresh of caller p is taken in this step and
\* the refreshed tokens are stored.
RefreshStores(p) ==
    /\ op[p] \in {"getValidToken", "refreshToken"}
    /\ pc[p] = "RefreshWait"
    /\ pc'[p] = "SaveOpen"

\* C30: a refresh that stores its tokens leaves the stored
\* refresh_token_expires_at as it was set by the last login or load.
C30_RefreshKeepsRefreshExpiry ==
    [][\A p \in Procs :
        RefreshStores(p)
        => tokens'.refresh_token_expires_at = tokens.refresh_token_expires_at]_vars

\* The request() call of caller p ends in this step because the
\* getValidToken() call of its interceptor threw.
TokenFailureSurfaces(p) ==
    /\ api[p].stage = "token"
    /\ api'[p].stage = "idle"
    /\ apiRet'[p].kind = "error"

\* C29: when the refresh grant made for a request() call fails, the error
\* request() throws is not one of its own 'HTTP <status>' or 'Network error'
\* failures of the resource API.
C29_RefreshFailureIdentifiable ==
    [][\A p \in Procs :
        (TokenFailureSurfaces(p) /\ ret[p].kind = "RefreshFailure")
        => ClassOf(apiRet'[p].message) \notin {"HttpError", "NetworkError"}]_vars

\* The refresh grants posted in this step.
RefreshesPosted == {m \in net' \ net : m.kind = "token_refresh"}

\* C27: a refresh grant is never posted with a refresh token that the
\* response of an earlier refresh has already replaced.
C27_NoReplacedRefreshToken ==
    [][\A m \in RefreshesPosted : m.refresh_token \notin replaced]_vars

\* A handler that starts with a getCachedDevice() call is called by caller p
\* in this step.
ReadCalled(p) == acc'[p].id # acc[p].id /\ acc'[p].method # "setTargetHeatingCoolingState"

\* The getCachedDevice() calls that return in this step.
Returned == {i \in DOMAIN gets' : i > Len(gets)}

\* C21: the first getCachedDevice() call made after a set handler stored the
\* device of its write, and less than cacheTimeout after it, returns that
\* device and fetches nothing.
C21_ReadYourWrite ==
    [][\A p \in Procs :
        (ReadCalled(p) /\ lastWrite.at # 0 /\ ~lastWrite.read
            /\ clock - lastWrite.at < CacheTimeout)
        => /\ api'[p].method # "GET"
           /\ Returned # {}
           /\ \A i \in Returned : ~gets'[i].fetched /\ gets'[i].device = lastWrite.device]_vars

\* The handler of caller p resumes in this step after the fetch of a
\* getCachedDevice() call.
FetchResumes(p) ==
    /\ acc[p].stage \in {"fetch", "read", "poll", "poll2"}
    /\ AccPending(p)
    /\ acc'[p] # acc[p]

\* C26: a fetch that was started before a set handler stored the device of
\* its write does not replace that entry when its answer arrives with a
\* device.
C26_WriteNotOverwritten ==
    [][\A p \in Procs :
        (/\ FetchResumes(p)
         /\ writes > acc[p].writes
         /\ lastWrite.device # 0
         /\ cachedDevice = lastWrite.device
         /\ apiRet[p].body # 0)
        => /\ cachedDevice' = cachedDevice
           /\ cacheTimestamp' = cacheTimestamp]_vars

\* C25: a device returned from the cache was received from the API less than
\* cacheTimeout before the call that returns it, and no entry carries a
\* timestamp later than the time at which its device was received.
C25_CachedDataFresh ==
    [][/\ \A i \in Returned :
            ~gets'[i].fetched => gets'[i].at - cachedReceived' < CacheTimeout
       /\ cachedDevice' # 0 => cacheTimestamp' <= cachedReceived']_vars

\* The cache entry of the accessory.
Entry == <<cachedDevice, cacheTimestamp>>

\* The handler of caller p resumes in this step after an API call that
\* failed, or after one that succeeded.
CallFailed(p) == AccPending(p) /\ apiRet[p].kind = "error" /\ acc'[p] # acc[p]
CallSucceeded(p) == AccPending(p) /\ apiRet[p].kind = "ok" /\ acc'[p] # acc[p]

\* An updateDeviceStatus() call is made in this step and finds a valid entry.
PollHit(p) ==
    /\ acc'[p].id # acc[p].id
    /\ acc'[p].method = "updateDeviceStatus"
    /\ CacheValid(clock)

C23_PollingIntervalInRange ==
    pollInterval # NoTimer
    => /\ ~config.isSet => pollInterval.interval = 120 * 1000
       /\ (config.isSet /\ config.value >= 30 /\ config.value <= 600)
          => pollInterval.interval = config.value * 1000
       /\ pollInterval.interval >= 30 * 1000
       /\ pollInterval.interval <= 600 * 1000

\* The timer of an accessory whose platform was configured with a polling
\* interval inside the range has fired and its poll has stored a device.
C23_InRangeWitness ==
    /\ config = Config(TRUE, 30)
    /\ pollInterval.interval = 30 * 1000
    /\ pollInterval.next > StartMs + 30 * 1000
    /\ cachedDevice # 0

\* Caller p's read of the durable record completes in this step.
RecordRead(p) == pc[p] = "LoadWait" /\ pc'[p] # "LoadWait"

\* Caller p enters loadTokens() in this step.
LoadBegins(p) == pc[p] # "LoadWait" /\ pc'[p] = "LoadWait"

\* C31: once in-memory tokens exist, getValidToken() and refreshToken() do
\* not read the durable record: a load begins, and the record is read, only
\* while there is no in-memory copy.
C31_NoReadWithMemoryTokens ==
    [][\A p \in Procs :
          /\ LoadBegins(p) => tokens = NullTokens
          /\ RecordRead(p) => tokens = NullTokens]_vars

\* Caller p's last call was `method` and it returned without an error.
Succeeded(p, method) ==
    /\ acc[p].method = method /\ acc[p].stage = "idle"
    /\ accRet[p].kind = "ok" /\ accRet[p].device # 0

\* The temperature a threshold handler called with `value` writes.
Written(data, type, value) ==
    ConvertFromCelsius(ClampTemperature(value, type), Units(data))

\* C32: when setHeatingThresholdTemperature(h) and
\* setCoolingThresholdTemperature(c) have both returned without an error,
\* the device has the heat target h and the cool target c, however the two
\* calls overlapped.
C32_BothThresholdsWritten ==
    \A p, q \in Procs :
        (/\ Succeeded(p, "setHeatingThresholdTemperature")
         /\ Succeeded(q, "setCoolingThresholdTemperature"))
        => /\ server.heat = Written(server, "heating", acc[p].value)
           /\ server.cool = Written(server, "cooling", acc[q].value)

\* Caller p's handler sends its write in this step.
WriteSent(p) == acc[p].stage # "write" /\ acc'[p].stage = "write"

\* The Settings of the write caller p sends in this step, and the data of
\* the device that is cached when it is sent.
SentSettings(p) == patches'[api'[p].id]
CachedData == snapshot[cachedDevice']

\* C33: a write of a threshold handler, and a write of setTargetTemperature()
\* for a device read in Auto mode, carries both Heat and Cool, and the target
\* the call is not about has the value of the cached device.
C33_BothTargetsSent ==
    [][\A p \in Procs :
          WriteSent(p) =>
             /\ acc'[p].method = "setHeatingThresholdTemperature"
                => /\ cachedDevice' # 0
                   /\ SentSettings(p).Heat = Written(CachedData, "heating", acc'[p].value)
                   /\ SentSettings(p).Cool = CachedData.cool
                   /\ SentSettings(p).Cool # 0
             /\ acc'[p].method = "setCoolingThresholdTemperature"
                => /\ cachedDevice' # 0
                   /\ SentSettings(p).Cool = Written(CachedData, "cooling", acc'[p].value)
                   /\ SentSettings(p).Heat = CachedData.heat
                   /\ SentSettings(p).Heat # 0
             /\ (acc'[p].method = "setTargetTemperature" /\ cachedDevice' # 0
                 /\ CachedData.mode = "Auto")
                => /\ SentSettings(p).Heat = ConvertFromCelsius(acc'[p].value, Units(CachedData))
                   /\ SentSettings(p).Cool = CachedData.cool
                   /\ SentSettings(p).Cool # 0]_vars

\* A cooling-threshold write that carries the heat target read, and a
\* target-temperature write for a device in Auto mode that carries the cool
\* target read, are on their way, for a device that counts in Fahrenheit.
C33_Witness ==
    \E p, q \in Procs :
        /\ acc[p].method = "setCoolingThresholdTemperature" /\ acc[p].stage = "write"
        /\ api[p].stage = "http" /\ patches[api[p].id] = Settings("", 68, 86)
        /\ acc[q].method = "setTargetTemperature" /\ acc[q].stage = "write"
        /\ api[q].stage = "http" /\ patches[api[q].id] = Settings("", 59, 77)

\* The handlers that set a temperature.
TemperatureSetters ==
    {"setTargetTemperature", "setHeatingThresholdTemperature",
     "setCoolingThresholdTemperature"}

\* Caller p's set handler ends in this step with an error, and has sent no
\* write: at its call, or when it resumes after the fetch of its read.
RejectedNow(p) ==
    /\ acc'[p].stage = "idle" /\ accRet'[p].kind = "error"
    /\ acc'[p].id # acc[p].id \/ acc[p].stage \in {"read", "heating", "cooling"}

\* The set request of caller p that starts or resumes in this step cannot be
\* applied: a target temperature for a device read in a mode without one, a
\* temperature without device data, or a mode value outside the map.
CannotBeApplied(p) ==
    \/ /\ acc'[p].id # acc[p].id
       /\ acc'[p].method = "setTargetHeatingCoolingState"
       /\ acc'[p].value \notin 0..3
    \/ /\ acc'[p].id # acc[p].id
       /\ acc'[p].method = "setTargetTemperature"
       /\ CacheValid(clock) /\ snapshot[cachedDevice].mode = "Off"
    \/ /\ acc[p].stage \in {"read", "heating", "cooling"} /\ AccPending(p)
       /\ apiRet[p].kind # "ok" \/ apiRet[p].body = 0
    \/ /\ acc[p].stage = "read" /\ AccPending(p)
       /\ apiRet[p].kind = "ok" /\ apiRet[p].body # 0
       /\ snapshot[apiRet[p].body].mode = "Off"

\* The step of caller p sends no write.
NoWriteSent(p) == patches' = patches /\ api'[p].stage = "idle" /\ http' = http

\* C34 as stated: a set request that cannot be applied fails with a
\* communication failure, sends no write and leaves the cache as it was.
C34_RejectedSetChangesNothing ==
    [][\A p \in Procs :
          CannotBeApplied(p) =>
             /\ RejectedNow(p)
             /\ accRet'[p].message = <<"SERVICE_COMMUNICATION_FAILURE">>
             /\ NoWriteSent(p)
             /\ cachedDevice' = cachedDevice /\ cacheTimestamp' = cacheTimestamp]_vars

\* C34, amended: a set request that cannot be applied fails with a
\* communication failure and sends no write; the cache is as it was, or
\* holds the device that the handler's own read has fetched, with the time
\* of that read.
C34_RejectedSetWritesNothing ==
    [][\A p \in Procs :
          CannotBeApplied(p) =>
             /\ RejectedNow(p)
             /\ accRet'[p].message = <<"SERVICE_COMMUNICATION_FAILURE">>
             /\ NoWriteSent(p)
             /\ \/ cachedDevice' = cachedDevice /\ cacheTimestamp' = cacheTimestamp
                \/ /\ acc[p].stage \in {"read", "heating", "cooling"}
                   /\ apiRet[p].kind = "ok"
                   /\ cachedDevice' = apiRet[p].body
                   /\ cacheTimestamp' = acc[p].now]_vars

\* A target temperature was refused for a device that the handler fetched
\* and found in mode Off, and a mode value outside the map was refused.
C34_Witness ==
    \E p, q \in Procs :
        /\ acc[p].method = "setTargetTemperature" /\ acc[p].stage = "idle"
        /\ accRet[p].kind = "error"
        /\ cachedDevice # 0 /\ snapshot[cachedDevice].mode = "Off"
        /\ acc[q].method = "setTargetHeatingCoolingState" /\ acc[q].value = 4
        /\ accRet[q].kind = "error"

\* C35: discoverDevices unregisters a cached accessory only when the API
\* has shown its device to be absent: an accessory that was unregistered is
\* of a device that no location of the account lists, so a failed fetch of
\* the devices of a location never has its accessories unregistered.
C35_UnregisteredOnlyWhenAbsent ==
    \A uuid \in platform.unregistered :
        \A location \in DOMAIN platform.cloud :
            DeviceOf(uuid) \notin platform.cloud[location]

\* C36: at any time at most one accessory handler with a running polling
\* timer exists per device, also when an accessory was restored from the
\* Homebridge cache and its device is discovered again.
C36_OnePollerPerDevice ==
    \A i, j \in DOMAIN platform.handlers :
        /\ platform.handlers[i].polling
        /\ platform.handlers[j].polling
        /\ platform.handlers[i].device = platform.handlers[j].device
        => i = j

\* C37: once discoverDevices has unregistered an accessory, no handler
\* issues a device fetch for its device any more.
C37_NoFetchAfterRemoval ==
    \A i \in DOMAIN platform.fetches : ~platform.fetches[i].removed

\* discoverDevices() has made no resource-API request and has registered and
\* unregistered nothing: Homebridge holds the cached accessories.
NothingDiscovered ==
    /\ platform.requests = 0
    /\ platform.unregistered = {}
    /\ platform.registered = platform.accessories \cup platform.restoring

\* C38: when login failed and loadTokens() gave the stored tokens,
\* discoverDevices goes on to request the locations with them; when login
\* failed and no stored tokens could be loaded, or email or password is
\* missing, it ends having sent no resource-API request and having
\* registered and unregistered no accessory.
C38_LoginFallback ==
    /\ platform.fallback = "tokens" =>
        /\ tokens # NullTokens
        /\ platform.stage \in {"loaded", "locations", "devices", "done"}
        /\ platform.stage # "loaded" => platform.requests >= 1
    /\ platform.fallback \in {"null", "threw"} =>
        platform.stage = "done" /\ NothingDiscovered
    /\ ~platform.credentials =>
        platform.stage \in {"idle", "done"} /\ NothingDiscovered

\* Login failed, the stored tokens were loaded and discovery ran to its end
\* with them.
C38_Witness ==
    /\ platform.fallback = "tokens"
    /\ platform.stage = "done"
    /\ platform.requests = 2
    /\ platform.registered # {}

\* The poll of caller p ends in this step without a device: its fetch
\* failed or brought no device data.
PollFails(p) ==
    /\ acc[p].method = "updateDeviceStatus"
    /\ acc[p].stage \in {"poll", "poll2"}
    /\ AccPending(p)
    /\ apiRet[p].kind # "ok" \/ apiRet[p].body = 0

\* The timer fires in this step.
TimerFires ==
    /\ pollInterval # NoTimer /\ pollInterval' # NoTimer
    /\ pollInterval'.next # pollInterval.next

C40_LoginTerminates ==
    \A p \in Procs :
        (op[p] = "login" /\ pc[p] # "idle")
            ~> /\ op[p] = "login" /\ pc[p] = "idle"
               /\ ret[p].kind # "none"
               /\ ret[p].kind = "ok" => file = FileWith(ret[p].tokens)

\* A login has run through its four requests and returned its tokens.
C40_Witness ==
    \E p \in Procs :
        /\ op[p] = "login" /\ pc[p] = "idle"
        /\ ret[p].kind = "ok"
        /\ sent[p] = LoginStages
        /\ file = FileWith(ret[p].tokens)

====
